---- MODULE Spec2Model ----
(***************************************************************************)
(* A model of carto::MBVectorTileDecoder                                   *)
(* (src/all/native/vectortiles/MBVectorTileDecoder.cpp): the style         *)
(* parameter store, the style installation, the simple setters, the        *)
(* single-slot feature-decoder cache and the two decode calls, run by      *)
(* client threads that synchronise on the decoder's one mutex.             *)
(*                                                                         *)
(* Strings that the code parses or formats are sequences of one-character  *)
(* strings, so that boost::lexical_cast is modelled by what it does.       *)
(* A double is held as a whole number of halves (5 is 2.5): every such     *)
(* value is exact in binary, and "%.17g" prints it without rounding noise. *)
(***************************************************************************)
EXTENDS Integers, Sequences, FiniteSets, TLC

\* ------------------------------------------------------------------ bounds
\* Number of client threads calling into the decoder.
NumThreads == 2
\* Number of calls the clients start in one run of Spec (all threads together).
MaxCalls == 2
\* Number of decodeFeature calls the clients start in one run of SpecCache.
MaxDecodes == 3

Threads == 1..NumThreads
NoThread == 0

\* ------------------------------------------------------------------ strings
S_empty == << >>
S_true  == <<"t","r","u","e">>
S_false == <<"f","a","l","s","e">>
S_1     == <<"1">>
S_0     == <<"0">>
S_7     == <<"7">>
S_m3    == <<"-","3">>
S_p01   == <<"+","0","1">>
S_2p5   == <<"2",".","5">>
S_abc   == <<"a","b","c">>
S_dark  == <<"d","a","r","k">>
S_dim   == <<"d","i","m">>
S_light == <<"l","i","g","h","t">>
S_blue  == <<"b","l","u","e">>

\* The value strings a client passes to setStyleParameter.
Strings ==
    { S_empty, S_true, S_false, S_1, S_0, S_7, S_m3, S_p01, S_2p5, S_abc,
      S_dark, S_dim, S_light, S_blue }

Digits == <<"0","1","2","3","4","5","6","7","8","9">>

IsDigit(c) == \E i \in 1..10 : Digits[i] = c

DigitVal(c) == (CHOOSE i \in 1..10 : Digits[i] = c) - 1

AllDigits(s) == \A i \in 1..Len(s) : IsDigit(s[i])

\* ------------------------------------------------------------------ mvt::Value
\* boost::variant<blank, bool, long long, double, std::string>; n holds the
\* bool (0/1), the integer, or the double in halves; s holds the string.
Blank      == [k |-> "blank",  n |-> 0, s |-> S_empty]
BoolV(b)   == [k |-> "bool",   n |-> IF b THEN 1 ELSE 0, s |-> S_empty]
IntV(i)    == [k |-> "int",    n |-> i, s |-> S_empty]
DoubleV(h) == [k |-> "double", n |-> h, s |-> S_empty]
StrV(str)  == [k |-> "string", n |-> 0, s |-> str]

\* ------------------------------------------------------------------ boost::lexical_cast
RECURSIVE NatToStr(_)
NatToStr(i) ==
    IF i < 10 THEN << Digits[i + 1] >>
    ELSE NatToStr(i \div 10) \o << Digits[(i % 10) + 1] >>

\* lexical_cast<std::string>(long long)
IntToStr(i) == IF i < 0 THEN <<"-">> \o NatToStr(0 - i) ELSE NatToStr(i)

\* lexical_cast<std::string>(bool): a bool streams as the digit 1 or 0
BoolToStr(n) == IF n = 1 THEN S_1 ELSE S_0

\* lexical_cast<std::string>(double), "%.17g", of h halves
DoubleToStr(h) ==
    LET a == IF h < 0 THEN 0 - h ELSE h
        sign == IF h < 0 THEN <<"-">> ELSE << >>
    IN  IF a % 2 = 0 THEN sign \o NatToStr(a \div 2)
        ELSE sign \o NatToStr(a \div 2) \o <<".","5">>

RECURSIVE StrToNat(_)
StrToNat(s) ==
    IF Len(s) = 0 THEN 0
    ELSE 10 * StrToNat(SubSeq(s, 1, Len(s) - 1)) + DigitVal(s[Len(s)])

Throw == [ok |-> FALSE, v |-> Blank]
Parsed(v) == [ok |-> TRUE, v |-> v]

\* lexical_cast<long long>(s): an optional sign, then digits and nothing else
ParseLongLong(s) ==
    LET signed == Len(s) > 0 /\ s[1] \in {"-", "+"}
        body == IF signed THEN Tail(s) ELSE s
    IN  IF Len(body) = 0 \/ ~AllDigits(body) THEN Throw
        ELSE IF signed /\ s[1] = "-" THEN Parsed(IntV(0 - StrToNat(body)))
        ELSE Parsed(IntV(StrToNat(body)))

\* lexical_cast<double>(s), for decimal literals whose fraction is absent or a
\* single digit 0 or 5 (the literals of Strings); anything else there is not a
\* number and throws.
ParseDouble(s) ==
    LET signed == Len(s) > 0 /\ s[1] \in {"-", "+"}
        body == IF signed THEN Tail(s) ELSE s
        dots == {i \in 1..Len(body) : body[i] = "."}
        ip == IF dots = {} THEN body ELSE SubSeq(body, 1, (CHOOSE i \in dots : TRUE) - 1)
        fp == IF dots = {} THEN << >>
              ELSE SubSeq(body, (CHOOSE i \in dots : TRUE) + 1, Len(body))
        half == IF fp = <<"5">> THEN 1 ELSE 0
        mag == 2 * StrToNat(ip) + half
    IN  IF Cardinality(dots) > 1 \/ Len(ip) = 0 \/ ~AllDigits(ip) THEN Throw
        ELSE IF dots # {} /\ fp \notin {<<"5">>, <<"0">>} THEN Throw
        ELSE IF signed /\ s[1] = "-" THEN Parsed(DoubleV(0 - mag))
        ELSE Parsed(DoubleV(mag))

\* lexical_cast<bool>(s): the last character is 1 or 0, before it an optional
\* sign (a minus only before 0) and zeros
LexicalCastBool(s) ==
    LET last == s[Len(s)]
        out == last = "1"
        rest == SubSeq(s, 1, Len(s) - 1)
        unsigned == IF Len(rest) > 0 /\ (rest[1] = "+" \/ (rest[1] = "-" /\ ~out))
                    THEN Tail(rest) ELSE rest
    IN  IF Len(s) = 0 THEN Throw
        ELSE IF last \notin {"0", "1"} THEN Throw
        ELSE IF \E i \in 1..Len(unsigned) : unsigned[i] # "0" THEN Throw
        ELSE Parsed(BoolV(out))

\* ------------------------------------------------------------------ style models
\* mvt::Map as the decoder sees it: the declared parameters (NutiParameter:
\* a default value and an enum table, empty for a plain parameter) and the
\* settings' background image. An enum table is a std::map<std::string, Value>,
\* held here as the sequence of its entries in key order, which is the order
\* the code iterates it in.
StyleIds == {"A", "B"}

NutiParameterMap(style) ==
    IF style = "A" THEN
        [name \in {"show_labels", "width", "theme"} |->
            CASE name = "show_labels" -> [default |-> BoolV(TRUE), enum |-> << >>]
              [] name = "width"       -> [default |-> IntV(1), enum |-> << >>]
              [] name = "theme"       ->
                    [default |-> IntV(0),
                     enum |-> << [label |-> S_dark, value |-> IntV(1)],
                                 [label |-> S_light, value |-> IntV(0)] >>]]
    ELSE
        [name \in {"mode", "scale", "title"} |->
            CASE name = "mode"  ->
                    [default |-> IntV(0),
                     enum |-> << [label |-> S_dark, value |-> IntV(1)],
                                 [label |-> S_dim, value |-> IntV(1)],
                                 [label |-> S_light, value |-> IntV(0)] >>]
              [] name = "scale" -> [default |-> DoubleV(5), enum |-> << >>]
              [] name = "title" -> [default |-> StrV(S_abc), enum |-> << >>]]

\* The parameter names a client may pass: the declared ones and one more.
ParamNames == {"show_labels", "width", "scale", "title", "theme", "mode", "nosuch"}

Declared(m, name) == name \in DOMAIN NutiParameterMap(m.style)

\* std::map::find on the enum table
EnumFind(enum, label) == {i \in 1..Len(enum) : enum[i].label = label}

\* ------------------------------------------------------------------ getStyleParameter
\* A serialization that has no enum branch: the raw value is printed.
SerializeValue_Raw(nutiParam, value) ==
    CASE value.k = "bool"   -> BoolToStr(value.n)
      [] value.k = "int"    -> IntToStr(value.n)
      [] value.k = "double" -> DoubleToStr(value.n)
      [] value.k = "string" -> value.s
      [] OTHER              -> S_empty

\* The string returned for a declared parameter: for an enum parameter the
\* first label, in key order, whose value equals the current value (the empty
\* string when there is none), otherwise the value printed by its kind.
SerializeValue(nutiParam, value) ==
    IF Len(nutiParam.enum) > 0 THEN
        LET hits == {i \in 1..Len(nutiParam.enum) : nutiParam.enum[i].value = value}
        IN  IF hits # {}
            THEN nutiParam.enum[CHOOSE i \in hits : \A j \in hits : i <= j].label
            ELSE S_empty
    ELSE CASE value.k = "bool"   -> BoolToStr(value.n)
           [] value.k = "int"    -> IntToStr(value.n)
           [] value.k = "double" -> DoubleToStr(value.n)
           [] value.k = "string" -> value.s
           [] OTHER              -> S_empty

\* A lookup that answers the empty string for a name that the style does not
\* declare.
GetStyleParameterEval_EmptyForUnknown(m, pvm, param) ==
    IF ~Declared(m, param) THEN [outcome |-> "ok", str |-> S_empty]
    ELSE LET nutiParam == NutiParameterMap(m.style)[param]
             value == IF param \in DOMAIN pvm THEN pvm[param] ELSE nutiParam.default
         IN  [outcome |-> "ok", str |-> SerializeValue(nutiParam, value)]

\* [outcome, str]: "raise" for an undeclared name.
GetStyleParameterEval(m, pvm, param) ==
    IF ~Declared(m, param) THEN [outcome |-> "raise", str |-> S_empty]
    ELSE LET nutiParam == NutiParameterMap(m.style)[param]
             value == IF param \in DOMAIN pvm THEN pvm[param] ELSE nutiParam.default
         IN  [outcome |-> "ok", str |-> SerializeValue(nutiParam, value)]

\* ------------------------------------------------------------------ setStyleParameter
\* A boolean parse that knows the two literals only.
ParseByKind_LiteralBoolOnly(default, value) ==
    CASE default.k = "bool"   ->
            IF value = S_true THEN Parsed(BoolV(TRUE))
            ELSE IF value = S_false THEN Parsed(BoolV(FALSE))
            ELSE Throw
      [] default.k = "int"    -> ParseLongLong(value)
      [] default.k = "double" -> ParseDouble(value)
      [] default.k = "string" -> Parsed(StrV(value))
      [] OTHER                -> Parsed(default)

\* A parse that stores the string as it came, whatever the parameter's kind.
ParseByKind_Untyped(default, value) == Parsed(StrV(value))

\* The value a plain (non-enum) parameter takes from the string, by the kind
\* of its default value; Throw where lexical_cast throws.
ParseByKind(default, value) ==
    CASE default.k = "bool"   ->
            IF value = S_true THEN Parsed(BoolV(TRUE))
            ELSE IF value = S_false THEN Parsed(BoolV(FALSE))
            ELSE LexicalCastBool(value)
      [] default.k = "int"    -> ParseLongLong(value)
      [] default.k = "double" -> ParseDouble(value)
      [] default.k = "string" -> Parsed(StrV(value))
      [] OTHER                -> Parsed(default)

\* (*_parameterValueMap)[param] = val
StoreValue(pvm, param, val) ==
    [n \in DOMAIN pvm \cup {param} |-> IF n = param THEN val ELSE pvm[n]]

\* setStyleParameter for a declared parameter, from the test of its enum
\* table to the store: [outcome, pvm].
SetDeclaredParameter(m, pvm, param, value) ==
    LET nutiParam == NutiParameterMap(m.style)[param]
    IN  IF Len(nutiParam.enum) > 0 THEN
            LET hits == EnumFind(nutiParam.enum, value)
            IN  IF hits = {} THEN [outcome |-> "false", pvm |-> pvm]
                ELSE [outcome |-> "true",
                      pvm |-> StoreValue(pvm, param,
                                         nutiParam.enum[CHOOSE i \in hits : TRUE].value)]
        ELSE LET r == ParseByKind(nutiParam.default, value)
             IN  IF ~r.ok THEN [outcome |-> "raise", pvm |-> pvm]
                 ELSE [outcome |-> "true", pvm |-> StoreValue(pvm, param, r.v)]

\* A setter that does not look the name up and stores the string under it.
SetStyleParameterEval_NoNameCheck(m, pvm, param, value) ==
    IF ~Declared(m, param)
    THEN [outcome |-> "true", pvm |-> StoreValue(pvm, param, StrV(value))]
    ELSE SetDeclaredParameter(m, pvm, param, value)

\* [outcome, pvm]: the locked block of setStyleParameter up to the store into
\* the parameter value map. outcome is "true" (stored), "false" (logged and
\* returned false) or "raise" (an exception leaves the function).
SetStyleParameterEval(m, pvm, param, value) ==
    IF ~Declared(m, param) THEN [outcome |-> "false", pvm |-> pvm]
    ELSE SetDeclaredParameter(m, pvm, param, value)

\* ------------------------------------------------------------------ style sets
\* What a client hands to the constructor or a style setter: a CompiledStyleSet
\* (asset name and asset package), a CartoCSSStyleSet (CartoCSS text and asset
\* package) or a null pointer. package: the asset package is non-null;
\* present: the package holds the named style asset; loads: the XML document
\* loads; parses: the style text is a well-formed style; style: the model it
\* describes.
SS_null == [kind |-> "null", assetName |-> S_empty, package |-> FALSE,
            present |-> FALSE, loads |-> FALSE, parses |-> FALSE, style |-> "A"]
SS_A    == [kind |-> "compiled", assetName |-> <<"a",".","x","m","l">>, package |-> TRUE,
            present |-> TRUE, loads |-> TRUE, parses |-> TRUE, style |-> "A"]
SS_B    == [kind |-> "cartocss", assetName |-> S_empty, package |-> TRUE,
            present |-> TRUE, loads |-> TRUE, parses |-> TRUE, style |-> "B"]
SS_Bp   == [kind |-> "compiled", assetName |-> <<"b",".","j","s","o","n">>, package |-> TRUE,
            present |-> TRUE, loads |-> TRUE, parses |-> TRUE, style |-> "B"]
SS_bad  == [kind |-> "cartocss", assetName |-> S_empty, package |-> FALSE,
            present |-> FALSE, loads |-> FALSE, parses |-> FALSE, style |-> "B"]

\* Compiled style sets that do not install: an asset name with another suffix
\* (in the package, and missing from it), no asset name, an asset that the
\* package does not hold, no package, an XML document that does not load, and
\* style documents that do not parse.
SS_txt == [SS_A EXCEPT !.assetName = <<"c",".","t","x","t">>]
SS_txt_missing == [SS_txt EXCEPT !.present = FALSE]
SS_noname == [SS_A EXCEPT !.assetName = S_empty]
SS_missing == [SS_A EXCEPT !.present = FALSE]
SS_nopkg == [SS_A EXCEPT !.package = FALSE, !.present = FALSE]
SS_xml_unloadable == [SS_A EXCEPT !.loads = FALSE, !.parses = FALSE]
SS_xml_bad == [SS_A EXCEPT !.parses = FALSE]
SS_json_bad == [SS_Bp EXCEPT !.parses = FALSE]

\* boost::algorithm::ends_with
EndsWith(s, suffix) ==
    Len(s) >= Len(suffix) /\ SubSeq(s, Len(s) - Len(suffix) + 1, Len(s)) = suffix

Suffix_xml  == <<".","x","m","l">>
Suffix_json == <<".","j","s","o","n">>

CompileFailed(type, msg) ==
    [ok |-> FALSE, type |-> type, msg |-> msg, map |-> [style |-> "A", ignore |-> FALSE]]
Compiled(style, ignore) ==
    [ok |-> TRUE, type |-> "none", msg |-> "none", map |-> [style |-> style, ignore |-> ignore]]

\* A dispatch whose last branch is the project loader: a name that does not
\* end in .xml is taken for a project file.
CompileStyle_ProjectByDefault(ss, ignore) ==
    IF ss.kind = "cartocss" THEN
        IF ss.parses THEN Compiled(ss.style, ignore)
        ELSE CompileFailed("ParseException", "CartoCSS style parsing failed")
    ELSE IF ss.kind = "compiled" THEN
        IF Len(ss.assetName) = 0
        THEN CompileFailed("InvalidArgumentException", "Could not find any styles in the style set")
        ELSE IF ~(ss.package /\ ss.present)
        THEN CompileFailed("GenericException", "Failed to load style description asset")
        ELSE IF EndsWith(ss.assetName, Suffix_xml) THEN
            IF ~ss.loads
            THEN CompileFailed("ParseException", "Style element XML parsing failed")
            ELSE IF ~ss.parses
            THEN CompileFailed("ParseException", "XML style processing failed")
            ELSE Compiled(ss.style, FALSE)
        ELSE IF ss.parses THEN Compiled(ss.style, ignore)
        ELSE CompileFailed("ParseException", "CartoCSS style parsing failed")
    ELSE CompileFailed("InvalidArgumentException", "Invalid style set")

\* The first half of updateCurrentStyle: the style model compiled from the
\* style set, or the exception thrown. ignore is _cartoCSSLayerNamesIgnored,
\* which only the CartoCSS loaders take.
CompileStyle(ss, ignore) ==
    IF ss.kind = "cartocss" THEN
        IF ss.parses THEN Compiled(ss.style, ignore)
        ELSE CompileFailed("ParseException", "CartoCSS style parsing failed")
    ELSE IF ss.kind = "compiled" THEN
        IF Len(ss.assetName) = 0
        THEN CompileFailed("InvalidArgumentException", "Could not find any styles in the style set")
        ELSE IF ~(ss.package /\ ss.present)
        THEN CompileFailed("GenericException", "Failed to load style description asset")
        ELSE IF EndsWith(ss.assetName, Suffix_xml) THEN
            IF ~ss.loads
            THEN CompileFailed("ParseException", "Style element XML parsing failed")
            ELSE IF ~ss.parses
            THEN CompileFailed("ParseException", "XML style processing failed")
            ELSE Compiled(ss.style, FALSE)
        ELSE IF EndsWith(ss.assetName, Suffix_json) THEN
            IF ss.parses THEN Compiled(ss.style, ignore)
            ELSE CompileFailed("ParseException", "CartoCSS style parsing failed")
        ELSE CompileFailed("GenericException", "Failed to detect style asset type")
    ELSE CompileFailed("InvalidArgumentException", "Invalid style set")

\* The parameter value map built from the declared defaults.
DefaultParameterValueMap(m) ==
    [name \in DOMAIN NutiParameterMap(m.style) |-> NutiParameterMap(m.style)[name].default]

\* mvt::SymbolizerContext: the resource managers, which belong to the style
\* they were created for, and the settings built from a parameter value map.
NewSymbolizerContext(style, pvm) == [style |-> style, settings |-> pvm]

\* The background pattern of a style: style A declares a background image.
BackgroundPatternOf(m) == IF m.style = "A" THEN "patternA" ELSE "none"

\* ------------------------------------------------------------------ tile payloads
\* A payload is a BinaryData object, known by its identity. P1 and P2 are
\* well-formed tiles with different features, Pcorrupt is a tile whose header
\* parses and whose features do not decode, Pbad is not a tile, Pempty has
\* no bytes and Pnull is the null pointer.
Payloads == {"P1", "P2", "Pcorrupt", "Pbad", "Pempty", "Pnull"}

NoFeature == [present |-> FALSE, id |-> 0, layer |-> "none", family |-> "none", parts |-> 0]

WireFeature(id, layer, family, parts) ==
    [present |-> TRUE, id |-> id, layer |-> layer, family |-> family, parts |-> parts]

\* The wire features of a payload whose header parses, by feature id: every
\* geometry family with no part, one part and two parts.
WireFeatures(payload) ==
    IF payload = "P1" THEN
        [id \in {1, 2, 3, 4, 5} |->
            CASE id = 1 -> WireFeature(1, "roads", "line", 1)
              [] id = 2 -> WireFeature(2, "pois", "point", 2)
              [] id = 3 -> WireFeature(3, "water", "polygon", 0)
              [] id = 4 -> WireFeature(4, "water", "polygon", 2)
              [] OTHER  -> WireFeature(5, "roads", "line", 0)]
    ELSE IF payload = "P2" THEN
        [id \in {1, 3, 4, 5} |->
            CASE id = 1 -> WireFeature(1, "water", "polygon", 1)
              [] id = 3 -> WireFeature(3, "pois", "point", 1)
              [] id = 4 -> WireFeature(4, "roads", "line", 2)
              [] OTHER  -> WireFeature(5, "pois", "point", 0)]
    ELSE
        [id \in {1, 2} |-> WireFeature(id, "roads", "line", 1)]

FeatureIds == {1, 2}

\* cglib::vec2<float> tile-local positions are held in units of 1/PosUnit, so
\* 0 is the tile's left or top edge and PosUnit its right or bottom edge.
PosUnit == 2
TilePos(x, y) == [x |-> x, y |-> y]

\* The first vertex of each part of a wire geometry.
WireVertices(payload, id) ==
    CASE payload = "P1" /\ id = 1 -> << TilePos(0, 0) >>
      [] payload = "P1" /\ id = 2 -> << TilePos(0, 0), TilePos(PosUnit, PosUnit) >>
      [] payload = "P1" /\ id = 4 -> << TilePos(1, 0), TilePos(PosUnit, 1) >>
      [] payload = "P2" /\ id = 1 -> << TilePos(PosUnit, PosUnit) >>
      [] payload = "P2" /\ id = 3 -> << TilePos(1, 1) >>
      [] payload = "P2" /\ id = 4 -> << TilePos(0, PosUnit), TilePos(PosUnit, 0) >>
      [] OTHER -> << >>

\* MapBounds: the tile's bounding rectangle.
MapBounds(minX, minY, maxX, maxY) ==
    [minX |-> minX, minY |-> minY, maxX |-> maxX, maxY |-> maxY]
UnitBounds == MapBounds(0, 0, 1, 1)

\* A conversion that lets y grow with the tile-local y.
ConvertFn_NoInversion(tileBounds, pos) ==
    [x |-> PosUnit * tileBounds.minX + pos.x * (tileBounds.maxX - tileBounds.minX),
     y |-> PosUnit * tileBounds.minY + pos.y * (tileBounds.maxY - tileBounds.minY)]

\* convertFn: the MapPos of a tile-local position, in units of 1/PosUnit;
\* getDelta() is max - min.
ConvertFn(tileBounds, pos) ==
    [x |-> PosUnit * tileBounds.minX + pos.x * (tileBounds.maxX - tileBounds.minX),
     y |-> PosUnit * tileBounds.maxY - pos.y * (tileBounds.maxY - tileBounds.minY)]

\* convertPoints: every position converted, in order.
ConvertPoints(tileBounds, poses) ==
    [i \in 1..Len(poses) |-> ConvertFn(tileBounds, poses[i])]

\* mvt::MBVTFeatureDecoder: the constructor parses the payload; by is the
\* thread that built this decoder object.
ParseThrows(payload) == payload = "Pbad"
\* decoder->getFeature throws on a feature that does not decode.
GetFeatureThrows(payload, id) == payload = "Pcorrupt" /\ id = 1
\* The conversion of the attributes or of the geometry throws.
ConvertThrows(payload, id) == payload = "Pcorrupt" /\ id = 2
\* reader.readTile throws while it decodes and styles the features.
ReadTileThrows(payload) == payload = "Pcorrupt"
NewFeatureDecoder(payload, t) == [src |-> payload, by |-> t]
NoDecoder == [src |-> "Pnull", by |-> NoThread]

\* decoder->getFeature(id, layerName)
GetFeature(decoder, id) ==
    IF id \in DOMAIN WireFeatures(decoder.src) THEN WireFeatures(decoder.src)[id]
    ELSE NoFeature

\* A conversion that builds a multi-geometry for more than one part only.
ConvertGeometry_MultiAboveOne(family, parts) ==
    IF family \in {"point", "line", "polygon"}
    THEN [family |-> family, multi |-> parts > 1, parts |-> parts]
    ELSE [family |-> "none", multi |-> FALSE, parts |-> 0]

\* convertGeometry: one part gives the singular geometry, any other count the
\* multi-geometry of the same family.
ConvertGeometry(family, parts) ==
    IF family \in {"point", "line", "polygon"}
    THEN [family |-> family, multi |-> parts # 1, parts |-> parts]
    ELSE [family |-> "none", multi |-> FALSE, parts |-> 0]

Absent == [present |-> FALSE, id |-> 0, layer |-> "none",
           geometry |-> ConvertGeometry("none", 0)]

\* The TileFeature decodeFeature builds from the decoder's feature.
MakeTileFeature(decoder, id) ==
    LET f == GetFeature(decoder, id)
    IN  IF ~f.present THEN Absent
        ELSE [present |-> TRUE, id |-> f.id, layer |-> f.layer,
              geometry |-> ConvertGeometry(f.family, f.parts)]

\* ------------------------------------------------------------------ state
VARIABLES
    map,                        \* _map: the installed style model
    parameterValueMap,          \* _parameterValueMap
    backgroundPattern,          \* _backgroundPattern
    symbolizerContext,          \* _symbolizerContext
    styleSet,                   \* _styleSet: the active style source
    buffer,                     \* _buffer
    featureIdOverride,          \* _featureIdOverride
    cartoCSSLayerNamesIgnored,  \* _cartoCSSLayerNamesIgnored
    layerNameOverride,          \* _layerNameOverride
    cachedFeatureDecoder,       \* _cachedFeatureDecoder: (payload, decoder)
    mutex,                      \* _mutex: the thread that holds it, or NoThread
    pc,                         \* where each thread is in its call
    arg,                        \* the call each thread is in, or made last
    loc,                        \* the locals of each thread's call
    ret,                        \* what each thread's last call returned
    notified,                   \* notifyDecoderChanged calls of each thread's call
    wrote,                      \* whether each thread's call has stored its state
    lastWriter,                 \* the thread whose call stored state last
    calls                       \* calls started so far

styleVars == <<map, parameterValueMap, backgroundPattern, symbolizerContext, styleSet>>
optionVars == <<buffer, featureIdOverride, cartoCSSLayerNamesIgnored, layerNameOverride>>
engineVars == <<styleVars, optionVars, cachedFeatureDecoder>>
histVars == <<notified, wrote, lastWriter>>
vars == <<engineVars, mutex, pc, arg, loc, ret, histVars, calls>>

NoMap == [style |-> "A", ignore |-> FALSE]
NoArg == [op |-> "none", name |-> "none", value |-> S_empty, ss |-> SS_null,
          payload |-> "Pnull", id |-> 0, num |-> 0, flag |-> FALSE, text |-> "none",
          bounds |-> UnitBounds]
NoLoc == [newMap |-> NoMap, decoder |-> NoDecoder, map |-> NoMap,
          ctx |-> NewSymbolizerContext("A", << >>), buffer |-> 0,
          idOverride |-> FALSE, layerName |-> "none"]
NoTile == [present |-> FALSE, src |-> "Pnull", map |-> NoMap,
           ctx |-> NewSymbolizerContext("A", << >>), buffer |-> 0,
           idOverride |-> FALSE, layerName |-> "none"]
NoRet == [op |-> "none", outcome |-> "none", type |-> "none", msg |-> "none",
          str |-> S_empty, feat |-> Absent, poses |-> << >>, tile |-> NoTile]

\* The style sets a decoder is constructed with.
InitStyleSets == {SS_A, SS_B}

\* The decoder as its constructor leaves it: the member initialisers, then
\* updateCurrentStyle(styleSet); no client call has started.
Init ==
    \E ss \in InitStyleSets :
        LET m == CompileStyle(ss, FALSE).map
        IN  /\ map = m
            /\ parameterValueMap = DefaultParameterValueMap(m)
            /\ backgroundPattern = BackgroundPatternOf(m)
            /\ symbolizerContext = NewSymbolizerContext(m.style, DefaultParameterValueMap(m))
            /\ styleSet = ss
            /\ buffer = 0
            /\ featureIdOverride = FALSE
            /\ cartoCSSLayerNamesIgnored = FALSE
            /\ layerNameOverride = "none"
            /\ cachedFeatureDecoder = [payload |-> "Pnull", decoder |-> NoDecoder]
            /\ mutex = NoThread
            /\ pc = [t \in Threads |-> "idle"]
            /\ arg = [t \in Threads |-> NoArg]
            /\ loc = [t \in Threads |-> NoLoc]
            /\ ret = [t \in Threads |-> NoRet]
            /\ notified = [t \in Threads |-> 0]
            /\ wrote = [t \in Threads |-> FALSE]
            /\ lastWriter = NoThread
            /\ calls = 0

\* ------------------------------------------------------------------ call and return
\* A thread enters a call: its locals and its call's history start afresh.
Enter(t, a, label) ==
    /\ pc[t] = "idle"
    /\ pc' = [pc EXCEPT ![t] = label]
    /\ arg' = [arg EXCEPT ![t] = a]
    /\ loc' = [loc EXCEPT ![t] = NoLoc]
    /\ ret' = [ret EXCEPT ![t] = NoRet]
    /\ notified' = [notified EXCEPT ![t] = 0]
    /\ wrote' = [wrote EXCEPT ![t] = FALSE]
    /\ UNCHANGED lastWriter

\* A call that returns or throws in the step that enters it.
EnterAndReturn(t, a, r) ==
    /\ pc[t] = "idle"
    /\ pc' = pc
    /\ arg' = [arg EXCEPT ![t] = a]
    /\ loc' = [loc EXCEPT ![t] = NoLoc]
    /\ ret' = [ret EXCEPT ![t] = r]
    /\ notified' = [notified EXCEPT ![t] = 0]
    /\ wrote' = [wrote EXCEPT ![t] = FALSE]
    /\ UNCHANGED lastWriter

Goto(t, label) == pc' = [pc EXCEPT ![t] = label]

Return(t, r) ==
    /\ pc' = [pc EXCEPT ![t] = "idle"]
    /\ ret' = [ret EXCEPT ![t] = r]

Returned(op, outcome) == [NoRet EXCEPT !.op = op, !.outcome = outcome]
Raised(op, type) == [NoRet EXCEPT !.op = op, !.outcome = "raise", !.type = type]
RaisedWith(op, type, msg) == [Raised(op, type) EXCEPT !.msg = msg]

\* std::lock_guard / unique_lock::lock: the caller waits until the mutex is free.
Acquire(t) == mutex = NoThread /\ mutex' = t
\* The end of a lock's scope, or unlock(): the owner gives the mutex up.
Release(t) == mutex' = IF mutex = t THEN NoThread ELSE mutex

\* The store of a mutating call has happened.
Stored(t) ==
    /\ wrote' = [wrote EXCEPT ![t] = TRUE]
    /\ lastWriter' = t
    /\ UNCHANGED notified

\* ------------------------------------------------------------------ notifyDecoderChanged
\* The last statement of every mutating call: the listeners are told, and the
\* call returns (setStyleParameter returns true).
NotifyDecoderChanged(t) ==
    /\ pc[t] = "notify"
    /\ UNCHANGED calls
    /\ notified' = [notified EXCEPT ![t] = @ + 1]
    /\ Return(t, Returned(arg[t].op, IF arg[t].op = "setStyleParameter" THEN "true" ELSE "ok"))
    /\ UNCHANGED <<engineVars, mutex, arg, loc, wrote, lastWriter>>

\* ------------------------------------------------------------------ style installation
StyleSetOps == {"setCompiledStyleSet", "setCartoCSSStyleSet"}

\* setCompiledStyleSet / setCartoCSSStyleSet up to the call of
\* updateCurrentStyle: a null style set throws NullArgumentException.
CallSetStyleSet(t, op, ss) ==
    /\ op \in StyleSetOps
    /\ ss.kind \in {"null", IF op = "setCompiledStyleSet" THEN "compiled" ELSE "cartocss"}
    /\ LET a == [NoArg EXCEPT !.op = op, !.ss = ss]
       IN  IF ss.kind = "null"
           THEN EnterAndReturn(t, a, Raised(op, "NullArgumentException"))
           ELSE Enter(t, a, "ucs_lock")
    /\ UNCHANGED <<engineVars, mutex>>

\* updateCurrentStyle: std::lock_guard<std::mutex> lock(_mutex)
UpdateCurrentStyleLock(t) ==
    /\ pc[t] = "ucs_lock"
    /\ UNCHANGED calls
    /\ Acquire(t)
    /\ Goto(t, "ucs_compile")
    /\ UNCHANGED <<engineVars, arg, loc, ret, histVars>>

\* A compilation that records the style set as the active one before it knows
\* whether the style compiles.
UpdateCurrentStyleCompile_StoresStyleSetFirst(t) ==
    /\ pc[t] = "ucs_compile"
    /\ UNCHANGED calls
    /\ styleSet' = arg[t].ss
    /\ LET r == CompileStyle(arg[t].ss, cartoCSSLayerNamesIgnored)
       IN  IF r.ok
           THEN /\ loc' = [loc EXCEPT ![t].newMap = r.map]
                /\ Goto(t, "ucs_swap")
                /\ UNCHANGED <<mutex, ret>>
           ELSE /\ Release(t)
                /\ Return(t, RaisedWith(arg[t].op, r.type, r.msg))
                /\ UNCHANGED loc
    /\ UNCHANGED <<map, parameterValueMap, backgroundPattern, symbolizerContext,
                   optionVars, cachedFeatureDecoder, arg, histVars>>

\* updateCurrentStyle from the dispatch on the style set to the locals that
\* hold the new state; an exception leaves the function and the lock.
UpdateCurrentStyleCompile(t) ==
    /\ pc[t] = "ucs_compile"
    /\ UNCHANGED calls
    /\ LET r == CompileStyle(arg[t].ss, cartoCSSLayerNamesIgnored)
       IN  IF r.ok
           THEN /\ loc' = [loc EXCEPT ![t].newMap = r.map]
                /\ Goto(t, "ucs_swap")
                /\ UNCHANGED <<mutex, ret>>
           ELSE /\ Release(t)
                /\ Return(t, RaisedWith(arg[t].op, r.type, r.msg))
                /\ UNCHANGED loc
    /\ UNCHANGED <<engineVars, arg, histVars>>

\* A swap that carries the current values of the parameters the new style
\* declares too over into the new parameter value map.
UpdateCurrentStyleSwap_KeepsOverrides(t) ==
    /\ pc[t] = "ucs_swap"
    /\ UNCHANGED calls
    /\ map' = loc[t].newMap
    /\ parameterValueMap' =
           [name \in DOMAIN DefaultParameterValueMap(loc[t].newMap) |->
               IF name \in DOMAIN parameterValueMap THEN parameterValueMap[name]
               ELSE DefaultParameterValueMap(loc[t].newMap)[name]]
    /\ Goto(t, "ucs_swap2")
    /\ UNCHANGED <<backgroundPattern, symbolizerContext, styleSet, optionVars,
                   cachedFeatureDecoder, mutex, arg, loc, ret, histVars>>

\* _map = map; _parameterValueMap = parameterValueMap
UpdateCurrentStyleSwap(t) ==
    /\ pc[t] = "ucs_swap"
    /\ UNCHANGED calls
    /\ map' = loc[t].newMap
    /\ parameterValueMap' = DefaultParameterValueMap(loc[t].newMap)
    /\ Goto(t, "ucs_swap2")
    /\ UNCHANGED <<backgroundPattern, symbolizerContext, styleSet, optionVars,
                   cachedFeatureDecoder, mutex, arg, loc, ret, histVars>>

\* A swap that empties the feature-decode cache with the old style.
UpdateCurrentStyleSwap2_ClearsCache(t) ==
    /\ pc[t] = "ucs_swap2"
    /\ UNCHANGED calls
    /\ backgroundPattern' = BackgroundPatternOf(loc[t].newMap)
    /\ symbolizerContext' =
           NewSymbolizerContext(loc[t].newMap.style, DefaultParameterValueMap(loc[t].newMap))
    /\ styleSet' = arg[t].ss
    /\ cachedFeatureDecoder' = [payload |-> "Pnull", decoder |-> NoDecoder]
    /\ Release(t)
    /\ Stored(t)
    /\ Goto(t, "notify")
    /\ UNCHANGED <<map, parameterValueMap, optionVars, arg, loc, ret>>

\* _backgroundPattern, _symbolizerContext, _styleSet are stored,
\* updateCurrentStyle returns and its lock_guard releases the mutex.
UpdateCurrentStyleSwap2(t) ==
    /\ pc[t] = "ucs_swap2"
    /\ UNCHANGED calls
    /\ backgroundPattern' = BackgroundPatternOf(loc[t].newMap)
    /\ symbolizerContext' =
           NewSymbolizerContext(loc[t].newMap.style, DefaultParameterValueMap(loc[t].newMap))
    /\ styleSet' = arg[t].ss
    /\ Release(t)
    /\ Stored(t)
    /\ Goto(t, "notify")
    /\ UNCHANGED <<map, parameterValueMap, optionVars, cachedFeatureDecoder, arg, loc, ret>>

\* ------------------------------------------------------------------ style parameters
CallGetStyleParameter(t, param) ==
    /\ Enter(t, [NoArg EXCEPT !.op = "getStyleParameter", !.name = param], "gsp_lock")
    /\ UNCHANGED <<engineVars, mutex>>

GetStyleParameterLock(t) ==
    /\ pc[t] = "gsp_lock"
    /\ UNCHANGED calls
    /\ Acquire(t)
    /\ Goto(t, "gsp_body")
    /\ UNCHANGED <<engineVars, arg, loc, ret, histVars>>

\* getStyleParameter under its lock_guard: the serialized value is returned or
\* InvalidArgumentException is thrown; either way the mutex is released.
GetStyleParameterBody(t) ==
    /\ pc[t] = "gsp_body"
    /\ UNCHANGED calls
    /\ LET r == GetStyleParameterEval(map, parameterValueMap, arg[t].name)
       IN  Return(t, IF r.outcome = "raise"
                     THEN Raised("getStyleParameter", "InvalidArgumentException")
                     ELSE [Returned("getStyleParameter", "ok") EXCEPT !.str = r.str])
    /\ Release(t)
    /\ UNCHANGED <<engineVars, arg, loc, histVars>>

CallSetStyleParameter(t, param, value) ==
    /\ Enter(t, [NoArg EXCEPT !.op = "setStyleParameter", !.name = param, !.value = value],
             "ssp_lock")
    /\ UNCHANGED <<engineVars, mutex>>

SetStyleParameterLock(t) ==
    /\ pc[t] = "ssp_lock"
    /\ UNCHANGED calls
    /\ Acquire(t)
    /\ Goto(t, "ssp_store")
    /\ UNCHANGED <<engineVars, arg, loc, ret, histVars>>

\* A setter whose failure paths fall through to the notification.
SetStyleParameterStore_NotifyOnFailure(t) ==
    /\ pc[t] = "ssp_store"
    /\ UNCHANGED calls
    /\ LET r == SetStyleParameterEval(map, parameterValueMap, arg[t].name, arg[t].value)
       IN  /\ parameterValueMap' = r.pvm
           /\ IF r.outcome = "true"
              THEN Goto(t, "ssp_context") /\ UNCHANGED mutex
              ELSE Goto(t, "notify") /\ Release(t)
    /\ UNCHANGED <<map, backgroundPattern, symbolizerContext, styleSet, optionVars,
                   cachedFeatureDecoder, arg, loc, ret, histVars>>

\* setStyleParameter from the lookup of the name to the store into the
\* parameter value map: it returns false (unknown name, illegal enum label),
\* lets the exception of lexical_cast leave the function, or stores the value.
SetStyleParameterStore(t) ==
    /\ pc[t] = "ssp_store"
    /\ UNCHANGED calls
    /\ LET r == SetStyleParameterEval(map, parameterValueMap, arg[t].name, arg[t].value)
       IN  CASE r.outcome = "true" ->
                  /\ parameterValueMap' = r.pvm
                  /\ Goto(t, "ssp_context")
                  /\ UNCHANGED <<mutex, ret>>
             [] r.outcome = "false" ->
                  /\ Release(t)
                  /\ Return(t, Returned("setStyleParameter", "false"))
                  /\ UNCHANGED parameterValueMap
             [] OTHER ->
                  /\ Release(t)
                  /\ Return(t, Raised("setStyleParameter", "bad_lexical_cast"))
                  /\ UNCHANGED parameterValueMap
    /\ UNCHANGED <<map, backgroundPattern, symbolizerContext, styleSet, optionVars,
                   cachedFeatureDecoder, arg, loc, histVars>>

\* The settings are rebuilt from the parameter value map and a new symbolizer
\* context takes the managers of the old one; the block ends and the mutex is
\* released.
SetStyleParameterContext(t) ==
    /\ pc[t] = "ssp_context"
    /\ UNCHANGED calls
    /\ symbolizerContext' = NewSymbolizerContext(symbolizerContext.style, parameterValueMap)
    /\ Release(t)
    /\ Stored(t)
    /\ Goto(t, "notify")
    /\ UNCHANGED <<map, parameterValueMap, backgroundPattern, styleSet, optionVars,
                   cachedFeatureDecoder, arg, loc, ret>>

\* ------------------------------------------------------------------ the plain setters
SetterOps == {"setBuffering", "setFeatureIdOverride", "setCartoCSSLayerNamesIgnored",
              "setLayerNameOverride"}

BufferValues == {0, 1}
LayerNames == {"none", "roads"}

\* The argument of a setter call: a.num for setBuffering, a.flag for the two
\* flags, a.text for setLayerNameOverride.
CallSetter(t, a) ==
    /\ a.op \in SetterOps
    /\ Enter(t, a, "set_lock")
    /\ UNCHANGED <<engineVars, mutex>>

SetterLock(t) ==
    /\ pc[t] = "set_lock"
    /\ UNCHANGED calls
    /\ Acquire(t)
    /\ Goto(t, "set_store")
    /\ UNCHANGED <<engineVars, arg, loc, ret, histVars>>

\* A setter that calls notifyDecoderChanged inside the locked block.
SetterStore_NotifyInsideLock(t) ==
    /\ pc[t] = "set_store"
    /\ UNCHANGED calls
    /\ buffer' = IF arg[t].op = "setBuffering" THEN arg[t].num ELSE buffer
    /\ featureIdOverride' =
           IF arg[t].op = "setFeatureIdOverride" THEN arg[t].flag ELSE featureIdOverride
    /\ cartoCSSLayerNamesIgnored' =
           IF arg[t].op = "setCartoCSSLayerNamesIgnored" THEN arg[t].flag
           ELSE cartoCSSLayerNamesIgnored
    /\ layerNameOverride' =
           IF arg[t].op = "setLayerNameOverride" THEN arg[t].text ELSE layerNameOverride
    /\ Stored(t)
    /\ Goto(t, "notify")
    /\ UNCHANGED <<styleVars, cachedFeatureDecoder, mutex, arg, loc, ret>>

\* A setter of the layer-names-ignored flag that applies the flag to the style
\* model in use.
SetterStore_Recompiles(t) ==
    /\ pc[t] = "set_store"
    /\ UNCHANGED calls
    /\ buffer' = IF arg[t].op = "setBuffering" THEN arg[t].num ELSE buffer
    /\ featureIdOverride' =
           IF arg[t].op = "setFeatureIdOverride" THEN arg[t].flag ELSE featureIdOverride
    /\ cartoCSSLayerNamesIgnored' =
           IF arg[t].op = "setCartoCSSLayerNamesIgnored" THEN arg[t].flag
           ELSE cartoCSSLayerNamesIgnored
    /\ layerNameOverride' =
           IF arg[t].op = "setLayerNameOverride" THEN arg[t].text ELSE layerNameOverride
    /\ map' = IF arg[t].op = "setCartoCSSLayerNamesIgnored" /\ styleSet.kind = "cartocss"
              THEN [map EXCEPT !.ignore = arg[t].flag] ELSE map
    /\ Release(t)
    /\ Stored(t)
    /\ Goto(t, "notify")
    /\ UNCHANGED <<parameterValueMap, backgroundPattern, symbolizerContext, styleSet,
                   cachedFeatureDecoder, arg, loc, ret>>

\* The member is assigned and the block's lock_guard releases the mutex.
SetterStore(t) ==
    /\ pc[t] = "set_store"
    /\ UNCHANGED calls
    /\ buffer' = IF arg[t].op = "setBuffering" THEN arg[t].num ELSE buffer
    /\ featureIdOverride' =
           IF arg[t].op = "setFeatureIdOverride" THEN arg[t].flag ELSE featureIdOverride
    /\ cartoCSSLayerNamesIgnored' =
           IF arg[t].op = "setCartoCSSLayerNamesIgnored" THEN arg[t].flag
           ELSE cartoCSSLayerNamesIgnored
    /\ layerNameOverride' =
           IF arg[t].op = "setLayerNameOverride" THEN arg[t].text ELSE layerNameOverride
    /\ Release(t)
    /\ Stored(t)
    /\ Goto(t, "notify")
    /\ UNCHANGED <<styleVars, cachedFeatureDecoder, arg, loc, ret>>

\* ------------------------------------------------------------------ decodeTile
\* An entry that tests the payload for null only.
CallDecodeTile_NoEmptyCheck(t, payload) ==
    /\ LET a == [NoArg EXCEPT !.op = "decodeTile", !.payload = payload]
       IN  IF payload = "Pnull"
           THEN EnterAndReturn(t, a, Returned("decodeTile", "absent"))
           ELSE Enter(t, a, "dt_lock")
    /\ UNCHANGED <<engineVars, mutex>>

\* decodeTile up to its lock: a null or an empty payload returns absent.
CallDecodeTile(t, payload) ==
    /\ LET a == [NoArg EXCEPT !.op = "decodeTile", !.payload = payload]
       IN  IF payload \in {"Pnull", "Pempty"}
           THEN EnterAndReturn(t, a, Returned("decodeTile", "absent"))
           ELSE Enter(t, a, "dt_lock")
    /\ UNCHANGED <<engineVars, mutex>>

DecodeTileLock(t) ==
    /\ pc[t] = "dt_lock"
    /\ UNCHANGED calls
    /\ Acquire(t)
    /\ Goto(t, "dt_snapshot")
    /\ UNCHANGED <<engineVars, arg, loc, ret, histVars>>

\* A snapshot whose first read has a locked block of its own.
DecodeTileSnapshot_Unlocked(t) ==
    /\ pc[t] = "dt_snapshot"
    /\ UNCHANGED calls
    /\ loc' = [loc EXCEPT ![t].map = map]
    /\ Release(t)
    /\ Goto(t, "dt_snapshot2")
    /\ UNCHANGED <<engineVars, arg, ret, histVars>>

\* map = _map
DecodeTileSnapshot(t) ==
    /\ pc[t] = "dt_snapshot"
    /\ UNCHANGED calls
    /\ loc' = [loc EXCEPT ![t].map = map]
    /\ Goto(t, "dt_snapshot2")
    /\ UNCHANGED <<engineVars, mutex, arg, ret, histVars>>

\* symbolizerContext, buffer, featureIdOverride and layerNameOverride are
\* copied and the block's lock_guard releases the mutex.
DecodeTileSnapshot2(t) ==
    /\ pc[t] = "dt_snapshot2"
    /\ UNCHANGED calls
    /\ loc' = [loc EXCEPT ![t].ctx = symbolizerContext, ![t].buffer = buffer,
                          ![t].idOverride = featureIdOverride,
                          ![t].layerName = layerNameOverride]
    /\ Release(t)
    /\ Goto(t, "dt_decode")
    /\ UNCHANGED <<engineVars, arg, ret, histVars>>

\* A decode that leaves its decoder in the cache slot for decodeFeature.
DecodeTileDecode_SharesCache(t) ==
    /\ pc[t] = "dt_decode"
    /\ UNCHANGED calls
    /\ cachedFeatureDecoder' =
           IF ParseThrows(arg[t].payload) THEN cachedFeatureDecoder
           ELSE [payload |-> arg[t].payload, decoder |-> NewFeatureDecoder(arg[t].payload, t)]
    /\ Return(t, IF ParseThrows(arg[t].payload) \/ ReadTileThrows(arg[t].payload)
                 THEN Returned("decodeTile", "absent")
                 ELSE [Returned("decodeTile", "ok") EXCEPT
                          !.tile = [present |-> TRUE, src |-> arg[t].payload,
                                    map |-> loc[t].map, ctx |-> loc[t].ctx,
                                    buffer |-> loc[t].buffer,
                                    idOverride |-> loc[t].idOverride,
                                    layerName |-> loc[t].layerName]])
    /\ UNCHANGED <<styleVars, optionVars, mutex, arg, loc, histVars>>

\* The try block: the payload is parsed afresh and the reader styles it with
\* the snapshot; an exception is caught and the call returns absent.
DecodeTileDecode(t) ==
    /\ pc[t] = "dt_decode"
    /\ UNCHANGED calls
    /\ Return(t, IF ParseThrows(arg[t].payload) \/ ReadTileThrows(arg[t].payload)
                 THEN Returned("decodeTile", "absent")
                 ELSE [Returned("decodeTile", "ok") EXCEPT
                          !.tile = [present |-> TRUE, src |-> arg[t].payload,
                                    map |-> loc[t].map, ctx |-> loc[t].ctx,
                                    buffer |-> loc[t].buffer,
                                    idOverride |-> loc[t].idOverride,
                                    layerName |-> loc[t].layerName]])
    /\ UNCHANGED <<engineVars, mutex, arg, loc, histVars>>

\* ------------------------------------------------------------------ decodeFeature
\* decodeFeature up to its lock: a null or an empty payload returns absent.
CallDecodeFeatureIn(t, id, payload, tileBounds) ==
    /\ LET a == [NoArg EXCEPT !.op = "decodeFeature", !.id = id, !.payload = payload,
                              !.bounds = tileBounds]
       IN  IF payload \in {"Pnull", "Pempty"}
           THEN EnterAndReturn(t, a, Returned("decodeFeature", "absent"))
           ELSE Enter(t, a, "df_lock")
    /\ UNCHANGED <<engineVars, mutex>>

\* decodeFeature for the tile whose bounds are the unit square.
CallDecodeFeature(t, id, payload) == CallDecodeFeatureIn(t, id, payload, UnitBounds)

\* std::unique_lock<std::mutex> lock(_mutex)
DecodeFeatureLock(t) ==
    /\ pc[t] = "df_lock"
    /\ UNCHANGED calls
    /\ Acquire(t)
    /\ Goto(t, "df_check")
    /\ UNCHANGED <<engineVars, arg, loc, ret, histVars>>

\* A test of the slot that asks only whether a decoder is cached, not for
\* which payload.
DecodeFeatureCheck_AnyPayload(t) ==
    /\ pc[t] = "df_check"
    /\ UNCHANGED calls
    /\ IF cachedFeatureDecoder.decoder = NoDecoder
       THEN /\ Goto(t, "df_parse")
            /\ UNCHANGED loc
       ELSE /\ loc' = [loc EXCEPT ![t].decoder = cachedFeatureDecoder.decoder]
            /\ Goto(t, "df_lookup")
    /\ Release(t)
    /\ UNCHANGED <<engineVars, arg, ret, histVars>>

\* The test of the cache slot: on a hit the cached decoder is taken and the
\* block ends; on a miss the lock is released for the parse.
DecodeFeatureCheck(t) ==
    /\ pc[t] = "df_check"
    /\ UNCHANGED calls
    /\ IF cachedFeatureDecoder.payload # arg[t].payload
       THEN /\ Goto(t, "df_parse")
            /\ UNCHANGED loc
       ELSE /\ loc' = [loc EXCEPT ![t].decoder = cachedFeatureDecoder.decoder]
            /\ Goto(t, "df_lookup")
    /\ Release(t)
    /\ UNCHANGED <<engineVars, arg, ret, histVars>>

\* A parse whose failure empties the cache slot.
DecodeFeatureParse_ClearsCache(t) ==
    /\ pc[t] = "df_parse"
    /\ UNCHANGED calls
    /\ IF ParseThrows(arg[t].payload)
       THEN /\ Return(t, Returned("decodeFeature", "absent"))
            /\ cachedFeatureDecoder' = [payload |-> "Pnull", decoder |-> NoDecoder]
            /\ UNCHANGED loc
       ELSE /\ loc' = [loc EXCEPT ![t].decoder = NewFeatureDecoder(arg[t].payload, t)]
            /\ Goto(t, "df_relock")
            /\ UNCHANGED <<ret, cachedFeatureDecoder>>
    /\ UNCHANGED <<styleVars, optionVars, mutex, arg, histVars>>

\* decoder = std::make_shared<mvt::MBVTFeatureDecoder>(...), with the mutex
\* released; an exception of the parser is caught and the call returns absent.
DecodeFeatureParse(t) ==
    /\ pc[t] = "df_parse"
    /\ UNCHANGED calls
    /\ IF ParseThrows(arg[t].payload)
       THEN /\ Return(t, Returned("decodeFeature", "absent"))
            /\ UNCHANGED loc
       ELSE /\ loc' = [loc EXCEPT ![t].decoder = NewFeatureDecoder(arg[t].payload, t)]
            /\ Goto(t, "df_relock")
            /\ UNCHANGED ret
    /\ UNCHANGED <<engineVars, mutex, arg, histVars>>

\* lock.lock()
DecodeFeatureRelock(t) ==
    /\ pc[t] = "df_relock"
    /\ UNCHANGED calls
    /\ Acquire(t)
    /\ Goto(t, "df_install")
    /\ UNCHANGED <<engineVars, arg, loc, ret, histVars>>

\* A caller that looks at the slot again and keeps an entry for its payload.
InstalledEntry_Recheck(cached, payload, decoder) ==
    IF cached.payload = payload THEN cached ELSE [payload |-> payload, decoder |-> decoder]

\* The pair stored into the cache slot by a caller that missed.
InstalledEntry(cached, payload, decoder) == [payload |-> payload, decoder |-> decoder]

\* _cachedFeatureDecoder = std::make_pair(tileData, decoder); the block ends
\* and the unique_lock releases the mutex.
DecodeFeatureInstall(t) ==
    /\ pc[t] = "df_install"
    /\ UNCHANGED calls
    /\ cachedFeatureDecoder' =
           InstalledEntry(cachedFeatureDecoder, arg[t].payload, loc[t].decoder)
    /\ Release(t)
    /\ Goto(t, "df_lookup")
    /\ UNCHANGED <<styleVars, optionVars, arg, loc, ret, histVars>>

\* The feature a decodeFeature call returns when nothing throws: the
\* TileFeature and the converted vertices of its geometry.
DecodedFeature(decoder, id, tileBounds) ==
    LET f == MakeTileFeature(decoder, id)
    IN  IF f.present
        THEN [Returned("decodeFeature", "ok") EXCEPT
                 !.feat = f,
                 !.poses = ConvertPoints(tileBounds, WireVertices(decoder.src, id))]
        ELSE Returned("decodeFeature", "absent")

\* A lookup without the catch clause: the exception leaves decodeFeature.
DecodeFeatureLookup_NoCatch(t) ==
    /\ pc[t] = "df_lookup"
    /\ UNCHANGED calls
    /\ Return(t, IF GetFeatureThrows(loc[t].decoder.src, arg[t].id)
                    \/ ConvertThrows(loc[t].decoder.src, arg[t].id)
                 THEN Raised("decodeFeature", "std::exception")
                 ELSE DecodedFeature(loc[t].decoder, arg[t].id, arg[t].bounds))
    /\ UNCHANGED <<engineVars, mutex, arg, loc, histVars>>

\* The rest of the try block: the feature is looked up in the decoder and
\* its attributes and geometry are converted; a missing feature returns
\* absent, and an exception is caught and the call returns absent.
DecodeFeatureLookup(t) ==
    /\ pc[t] = "df_lookup"
    /\ UNCHANGED calls
    /\ Return(t, IF GetFeatureThrows(loc[t].decoder.src, arg[t].id)
                    \/ ConvertThrows(loc[t].decoder.src, arg[t].id)
                 THEN Returned("decodeFeature", "absent")
                 ELSE DecodedFeature(loc[t].decoder, arg[t].id, arg[t].bounds))
    /\ UNCHANGED <<engineVars, mutex, arg, loc, histVars>>

\* ------------------------------------------------------------------ specifications
\* A client thread starts a call while the run's budget of calls lasts.
Budget == calls < MaxCalls /\ calls' = calls + 1
DecodeBudget == calls < MaxDecodes /\ calls' = calls + 1

\* The calls of the clients in Spec.
SpecStyleSets == {<<"setCompiledStyleSet", SS_A>>, <<"setCartoCSSStyleSet", SS_B>>,
                  <<"setCartoCSSStyleSet", SS_bad>>, <<"setCompiledStyleSet", SS_null>>}
SpecParamCalls == {<<"show_labels", S_false>>, <<"show_labels", S_abc>>,
                   <<"mode", S_dim>>, <<"nosuch", S_1>>}
SpecSetterCalls ==
    { [NoArg EXCEPT !.op = "setBuffering", !.num = 1],
      [NoArg EXCEPT !.op = "setFeatureIdOverride", !.flag = TRUE],
      [NoArg EXCEPT !.op = "setCartoCSSLayerNamesIgnored", !.flag = TRUE],
      [NoArg EXCEPT !.op = "setLayerNameOverride", !.text = "roads"] }
SpecTilePayloads == {"P1", "Pbad", "Pnull"}

\* Threads that install styles, set parameters and options and decode tiles.
Next ==
    \/ \E t \in Threads, c \in SpecStyleSets : Budget /\ CallSetStyleSet(t, c[1], c[2])
    \/ \E t \in Threads, c \in SpecParamCalls : Budget /\ CallSetStyleParameter(t, c[1], c[2])
    \/ \E t \in Threads, a \in SpecSetterCalls : Budget /\ CallSetter(t, a)
    \/ \E t \in Threads, p \in SpecTilePayloads : Budget /\ CallDecodeTile(t, p)
    \/ \E t \in Threads : UpdateCurrentStyleLock(t)
    \/ \E t \in Threads : UpdateCurrentStyleCompile(t)
    \/ \E t \in Threads : UpdateCurrentStyleSwap(t)
    \/ \E t \in Threads : UpdateCurrentStyleSwap2(t)
    \/ \E t \in Threads : SetStyleParameterLock(t)
    \/ \E t \in Threads : SetStyleParameterStore(t)
    \/ \E t \in Threads : SetStyleParameterContext(t)
    \/ \E t \in Threads : SetterLock(t)
    \/ \E t \in Threads : SetterStore(t)
    \/ \E t \in Threads : DecodeTileLock(t)
    \/ \E t \in Threads : DecodeTileSnapshot(t)
    \/ \E t \in Threads : DecodeTileSnapshot2(t)
    \/ \E t \in Threads : DecodeTileDecode(t)
    \/ \E t \in Threads : NotifyDecoderChanged(t)

Spec == Init /\ [][Next]_vars

\* The calls of the clients in SpecCache.
CachePayloads == {"P1", "P2", "Pbad", "Pempty"}

\* Threads that decode features, beside a thread that sets the buffering.
NextCache ==
    \/ \E t \in Threads, id \in FeatureIds, p \in CachePayloads :
           DecodeBudget /\ CallDecodeFeature(t, id, p)
    \/ \E t \in Threads : DecodeFeatureLock(t)
    \/ \E t \in Threads : DecodeFeatureCheck(t)
    \/ \E t \in Threads : DecodeFeatureParse(t)
    \/ \E t \in Threads : DecodeFeatureRelock(t)
    \/ \E t \in Threads : DecodeFeatureInstall(t)
    \/ \E t \in Threads : DecodeFeatureLookup(t)

SpecCache == Init /\ [][NextCache]_vars

\* One client that installs styles and reads and writes their parameters, with
\* every name of ParamNames and every string of Strings.
Client == 1
ParamStyleSets == {<<"setCompiledStyleSet", SS_A>>, <<"setCartoCSSStyleSet", SS_B>>,
                   <<"setCompiledStyleSet", SS_Bp>>}

NextParam ==
    \/ \E c \in ParamStyleSets : UNCHANGED calls /\ CallSetStyleSet(Client, c[1], c[2])
    \/ \E n \in ParamNames : UNCHANGED calls /\ CallGetStyleParameter(Client, n)
    \/ \E n \in ParamNames, v \in Strings :
           UNCHANGED calls /\ CallSetStyleParameter(Client, n, v)
    \/ UpdateCurrentStyleLock(Client)
    \/ UpdateCurrentStyleCompile(Client)
    \/ UpdateCurrentStyleSwap(Client)
    \/ UpdateCurrentStyleSwap2(Client)
    \/ GetStyleParameterLock(Client)
    \/ GetStyleParameterBody(Client)
    \/ SetStyleParameterLock(Client)
    \/ SetStyleParameterStore(Client)
    \/ SetStyleParameterContext(Client)
    \/ NotifyDecoderChanged(Client)

SpecParam == Init /\ [][NextParam]_vars

\* One client that installs style sets of every kind, those that fail too,
\* between calls that override a parameter, set the options and fill the
\* feature-decode cache.
InstallStyleSets ==
    {<<"setCompiledStyleSet", ss>> :
        ss \in {SS_A, SS_Bp, SS_txt, SS_txt_missing, SS_noname, SS_missing, SS_nopkg,
                SS_xml_unloadable, SS_xml_bad, SS_json_bad, SS_null}}
    \cup {<<"setCartoCSSStyleSet", ss>> : ss \in {SS_B, SS_bad, SS_null}}
InstallParamCalls == {<<"show_labels", S_false>>, <<"mode", S_dark>>}
InstallSetterCalls ==
    { [NoArg EXCEPT !.op = "setBuffering", !.num = 1],
      [NoArg EXCEPT !.op = "setFeatureIdOverride", !.flag = TRUE],
      [NoArg EXCEPT !.op = "setCartoCSSLayerNamesIgnored", !.flag = TRUE],
      [NoArg EXCEPT !.op = "setCartoCSSLayerNamesIgnored", !.flag = FALSE],
      [NoArg EXCEPT !.op = "setLayerNameOverride", !.text = "roads"] }

NextInstall ==
    \/ \E c \in InstallStyleSets : UNCHANGED calls /\ CallSetStyleSet(Client, c[1], c[2])
    \/ \E c \in InstallParamCalls :
           UNCHANGED calls /\ CallSetStyleParameter(Client, c[1], c[2])
    \/ \E a \in InstallSetterCalls : UNCHANGED calls /\ CallSetter(Client, a)
    \/ UNCHANGED calls /\ CallDecodeFeature(Client, 1, "P1")
    \/ UpdateCurrentStyleLock(Client)
    \/ UpdateCurrentStyleCompile(Client)
    \/ UpdateCurrentStyleSwap(Client)
    \/ UpdateCurrentStyleSwap2(Client)
    \/ SetStyleParameterLock(Client)
    \/ SetStyleParameterStore(Client)
    \/ SetStyleParameterContext(Client)
    \/ SetterLock(Client)
    \/ SetterStore(Client)
    \/ DecodeFeatureLock(Client)
    \/ DecodeFeatureCheck(Client)
    \/ DecodeFeatureParse(Client)
    \/ DecodeFeatureRelock(Client)
    \/ DecodeFeatureInstall(Client)
    \/ DecodeFeatureLookup(Client)
    \/ NotifyDecoderChanged(Client)

SpecInstall == Init /\ [][NextInstall]_vars

\* One client that decodes every feature of the well-formed payloads, and a
\* feature that P2 does not hold, for tiles with these bounding rectangles.
GeometryFeatureIds == {1, 2, 3, 4, 5}
GeometryPayloads == {"P1", "P2"}
Coordinates == {-2, 0, 3}
TileBounds ==
    {MapBounds(b[1], b[2], b[3], b[4]) :
        b \in {c \in Coordinates \X Coordinates \X Coordinates \X Coordinates :
                  c[1] <= c[3] /\ c[2] <= c[4]}}

NextGeometry ==
    \/ \E id \in GeometryFeatureIds, p \in GeometryPayloads, b \in TileBounds :
           UNCHANGED calls /\ CallDecodeFeatureIn(Client, id, p, b)
    \/ DecodeFeatureLock(Client)
    \/ DecodeFeatureCheck(Client)
    \/ DecodeFeatureParse(Client)
    \/ DecodeFeatureRelock(Client)
    \/ DecodeFeatureInstall(Client)
    \/ DecodeFeatureLookup(Client)

SpecGeometry == Init /\ [][NextGeometry]_vars

\* The calls of the clients in SpecCacheStyle: decodeFeature for two payloads
\* that parse and one that does not, beside every kind of mutating call.
CacheStyleFeatureCalls == {<<1, "P1">>, <<1, "P2">>, <<1, "Pcorrupt">>, <<1, "Pbad">>}
CacheStyleSets == {<<"setCompiledStyleSet", SS_A>>, <<"setCartoCSSStyleSet", SS_B>>}
CacheStyleParamCalls == {<<"show_labels", S_false>>, <<"mode", S_dark>>}

\* Threads that decode features while others install styles, set parameters
\* and set options.
NextCacheStyle ==
    \/ \E t \in Threads, c \in CacheStyleFeatureCalls :
           Budget /\ CallDecodeFeature(t, c[1], c[2])
    \/ \E t \in Threads, c \in CacheStyleSets : Budget /\ CallSetStyleSet(t, c[1], c[2])
    \/ \E t \in Threads, c \in CacheStyleParamCalls :
           Budget /\ CallSetStyleParameter(t, c[1], c[2])
    \/ \E t \in Threads, a \in SpecSetterCalls : Budget /\ CallSetter(t, a)
    \/ \E t \in Threads : DecodeFeatureLock(t)
    \/ \E t \in Threads : DecodeFeatureCheck(t)
    \/ \E t \in Threads : DecodeFeatureParse(t)
    \/ \E t \in Threads : DecodeFeatureRelock(t)
    \/ \E t \in Threads : DecodeFeatureInstall(t)
    \/ \E t \in Threads : DecodeFeatureLookup(t)
    \/ \E t \in Threads : UpdateCurrentStyleLock(t)
    \/ \E t \in Threads : UpdateCurrentStyleCompile(t)
    \/ \E t \in Threads : UpdateCurrentStyleSwap(t)
    \/ \E t \in Threads : UpdateCurrentStyleSwap2(t)
    \/ \E t \in Threads : SetStyleParameterLock(t)
    \/ \E t \in Threads : SetStyleParameterStore(t)
    \/ \E t \in Threads : SetStyleParameterContext(t)
    \/ \E t \in Threads : SetterLock(t)
    \/ \E t \in Threads : SetterStore(t)
    \/ \E t \in Threads : NotifyDecoderChanged(t)

SpecCacheStyle == Init /\ [][NextCacheStyle]_vars

\* The calls of the clients in SpecDecode: payloads that decode, that fail in
\* the parser, in the feature lookup, in the conversion and in the tile
\* reader, and payloads without content.
DecodeOps == {"decodeFeature", "decodeTile"}
DecodeFeatureCalls == {<<1, "P1">>, <<2, "P2">>, <<1, "Pcorrupt">>, <<2, "Pcorrupt">>,
                       <<1, "Pbad">>, <<1, "Pnull">>, <<1, "Pempty">>}
DecodeTilePayloads == {"P1", "Pcorrupt", "Pbad", "Pnull", "Pempty"}

\* Threads that decode features and tiles, beside calls of setBuffering.
NextDecode ==
    \/ \E t \in Threads, c \in DecodeFeatureCalls :
           Budget /\ CallDecodeFeature(t, c[1], c[2])
    \/ \E t \in Threads, p \in DecodeTilePayloads : Budget /\ CallDecodeTile(t, p)
    \/ \E t \in Threads :
           Budget /\ CallSetter(t, [NoArg EXCEPT !.op = "setBuffering", !.num = 1])
    \/ \E t \in Threads : DecodeFeatureLock(t)
    \/ \E t \in Threads : DecodeFeatureCheck(t)
    \/ \E t \in Threads : DecodeFeatureParse(t)
    \/ \E t \in Threads : DecodeFeatureRelock(t)
    \/ \E t \in Threads : DecodeFeatureInstall(t)
    \/ \E t \in Threads : DecodeFeatureLookup(t)
    \/ \E t \in Threads : DecodeTileLock(t)
    \/ \E t \in Threads : DecodeTileSnapshot(t)
    \/ \E t \in Threads : DecodeTileSnapshot2(t)
    \/ \E t \in Threads : DecodeTileDecode(t)
    \/ \E t \in Threads : SetterLock(t)
    \/ \E t \in Threads : SetterStore(t)
    \/ \E t \in Threads : NotifyDecoderChanged(t)

SpecDecode == Init /\ [][NextDecode]_vars

\* ------------------------------------------------------------------ properties
\* A thread completes the step it is at.
Leaves(t, label) == pc[t] = label /\ pc'[t] # label

SequentialDecodeFeature(payload, id) ==
    IF payload \in {"Pnull", "Pempty"} \/ ParseThrows(payload) THEN Absent
    ELSE MakeTileFeature(NewFeatureDecoder(payload, NoThread), id)

\* C10: every decodeFeature call, whatever other decodeFeature calls run
\* beside it, returns what the same call returns when run alone on one
\* thread (presence, feature id, layer name and geometry), so concurrent
\* calls for the same payload and id agree with each other and with a
\* sequential run.
C10_ConcurrentDecodeFeatureAgrees ==
    \A t \in Threads :
        (pc[t] = "idle" /\ ret[t].op = "decodeFeature")
            => /\ ret[t].feat = SequentialDecodeFeature(arg[t].payload, arg[t].id)
               /\ ret[t].outcome = IF ret[t].feat.present THEN "ok" ELSE "absent"

\* Two calls for the same payload and id overlapped (each parsed its own
\* decoder) and both have returned the feature.
C10_Witness ==
    \E t, u \in Threads :
        /\ t # u
        /\ pc[t] = "idle" /\ pc[u] = "idle"
        /\ ret[t].op = "decodeFeature" /\ ret[u].op = "decodeFeature"
        /\ arg[t].payload = arg[u].payload /\ arg[t].id = arg[u].id
        /\ loc[t].decoder.by = t /\ loc[u].decoder.by = u
        /\ ret[t].feat.present /\ ret[u].feat = ret[t].feat

\* ------------------------------------------------------------------ parameter store properties
PlainParam(m, name) == Declared(m, name) /\ Len(NutiParameterMap(m.style)[name].enum) = 0
EnumParam(m, name) == Declared(m, name) /\ Len(NutiParameterMap(m.style)[name].enum) > 0
KindOf(m, name) == NutiParameterMap(m.style)[name].default.k

\* Text that is no number: empty, or with a character that no decimal literal has.
NonNumeric(s) ==
    Len(s) = 0 \/ \E i \in 1..Len(s) : ~IsDigit(s[i]) /\ s[i] \notin {"-", "+", "."}

\* A string that cannot be parsed as the kind: non-numeric text for an
\* integer or a float, text that is neither a boolean literal nor a number
\* for a boolean.
Unparsable(kind, s) ==
    CASE kind \in {"int", "double"} -> NonNumeric(s)
      [] kind = "bool" -> NonNumeric(s) /\ s \notin {S_true, S_false}
      [] OTHER -> FALSE

\* C2 as claimed: setStyleParameter of a declared non-enum parameter with a
\* string that cannot be parsed as its kind returns false without raising,
\* leaves the parameter values and the settings unchanged and notifies nobody.
C2_UnparsableValueReturnsFalse ==
    [][\A t \in Threads :
          (/\ Leaves(t, "ssp_store")
           /\ PlainParam(map, arg[t].name)
           /\ Unparsable(KindOf(map, arg[t].name), arg[t].value))
              => /\ pc'[t] = "idle"
                 /\ ret'[t] = Returned("setStyleParameter", "false")
                 /\ UNCHANGED <<parameterValueMap, symbolizerContext>>
                 /\ notified'[t] = 0]_vars

\* C3: setStyleParameter with a name the current style does not declare
\* returns false, changes no engine state (parameter values, settings and all
\* the rest), notifies nobody and leaves the mutex free.
C3_UnknownNameReturnsFalse ==
    [][\A t \in Threads :
          (Leaves(t, "ssp_store") /\ ~Declared(map, arg[t].name))
              => /\ pc'[t] = "idle"
                 /\ ret'[t] = Returned("setStyleParameter", "false")
                 /\ UNCHANGED engineVars
                 /\ notified'[t] = 0
                 /\ mutex' = NoThread]_vars

\* A call with an undeclared name has returned false in a state where a
\* parameter is overridden.
C3_Witness ==
    /\ pc[Client] = "idle"
    /\ ret[Client] = Returned("setStyleParameter", "false")
    /\ arg[Client].op = "setStyleParameter"
    /\ ~Declared(map, arg[Client].name)
    /\ parameterValueMap # DefaultParameterValueMap(map)
    /\ notified[Client] = 0

\* C4 as claimed: getStyleParameter of a boolean parameter returns the
\* literal "true" or "false" of its current value.
C4_BooleanSerializedAsLiteral ==
    \A t \in Threads :
        (/\ pc[t] = "idle"
         /\ ret[t].op = "getStyleParameter" /\ ret[t].outcome = "ok"
         /\ PlainParam(map, arg[t].name) /\ KindOf(map, arg[t].name) = "bool")
            => ret[t].str = IF parameterValueMap[arg[t].name] = BoolV(TRUE)
                            THEN S_true ELSE S_false

\* C5: in every reachable state, for every declared plain parameter P of the
\* installed style, get(P) returns a string s, set(P, s) succeeds, and get(P)
\* after it returns s again; and every setStyleParameter(P, s) step whose
\* argument is the string that get(P) returns there stores a value that
\* serializes to s.
C5_RoundTrip ==
    /\ [](\A name \in DOMAIN NutiParameterMap(map.style) :
             PlainParam(map, name) =>
                LET g == GetStyleParameterEval(map, parameterValueMap, name)
                    r == SetStyleParameterEval(map, parameterValueMap, name, g.str)
                IN  /\ g.outcome = "ok"
                    /\ r.outcome = "true"
                    /\ GetStyleParameterEval(map, r.pvm, name) = g)
    /\ [][\A t \in Threads :
             (/\ Leaves(t, "ssp_store")
              /\ PlainParam(map, arg[t].name)
              /\ arg[t].value = GetStyleParameterEval(map, parameterValueMap, arg[t].name).str)
                 => /\ pc'[t] = "ssp_context"
                    /\ GetStyleParameterEval(map, parameterValueMap', arg[t].name).str
                           = arg[t].value]_vars

\* A plain parameter holds a value other than its default, and the last call
\* set it to the string that get returns for it.
C5_Witness ==
    /\ pc[Client] = "idle"
    /\ ret[Client] = Returned("setStyleParameter", "true")
    /\ arg[Client].op = "setStyleParameter"
    /\ PlainParam(map, arg[Client].name)
    /\ KindOf(map, arg[Client].name) = "double"
    /\ parameterValueMap[arg[Client].name] # NutiParameterMap(map.style)[arg[Client].name].default
    /\ arg[Client].value = GetStyleParameterEval(map, parameterValueMap, arg[Client].name).str

IsLabel(m, name, s) == EnumFind(NutiParameterMap(m.style)[name].enum, s) # {}
LabelValue(m, name, s) ==
    LET enum == NutiParameterMap(m.style)[name].enum
    IN  enum[CHOOSE i \in EnumFind(enum, s) : TRUE].value

\* C6 as claimed: setStyleParameter of an enum parameter with a label
\* succeeds and getStyleParameter then returns that label; with a string that
\* is no label it returns false and the values are unchanged.
C6_EnumLabelReturned ==
    [][\A t \in Threads :
          (Leaves(t, "ssp_store") /\ EnumParam(map, arg[t].name))
              => IF IsLabel(map, arg[t].name, arg[t].value)
                 THEN /\ pc'[t] = "ssp_context"
                      /\ GetStyleParameterEval(map, parameterValueMap', arg[t].name).str
                             = arg[t].value
                 ELSE /\ ret'[t] = Returned("setStyleParameter", "false")
                      /\ parameterValueMap' = parameterValueMap]_vars

\* C6 as amended: setStyleParameter of an enum parameter with a label
\* succeeds and stores the label's value; getStyleParameter then returns a
\* label of the table (not the raw value) that has the same value as the
\* label set, namely the first such label in key order, which is the label
\* set whenever no other label has its value. With a string that is no label
\* it returns false and the values are unchanged.
C6_EnumLabelOfSameValueReturned ==
    [][\A t \in Threads :
          (Leaves(t, "ssp_store") /\ EnumParam(map, arg[t].name))
              => IF IsLabel(map, arg[t].name, arg[t].value)
                 THEN LET n == arg[t].name
                          enum == NutiParameterMap(map.style)[n].enum
                          g == GetStyleParameterEval(map, parameterValueMap', n).str
                      IN  /\ pc'[t] = "ssp_context"
                          /\ parameterValueMap'[n] = LabelValue(map, n, arg[t].value)
                          /\ IsLabel(map, n, g)
                          /\ LabelValue(map, n, g) = LabelValue(map, n, arg[t].value)
                          /\ \A i \in 1..Len(enum) :
                                (enum[i].value = parameterValueMap'[n]
                                   /\ enum[i].label # arg[t].value)
                                   => \E j \in 1..i : enum[j].label = g
                          /\ (\A i \in 1..Len(enum) :
                                 enum[i].value = parameterValueMap'[n]
                                    => enum[i].label = arg[t].value)
                                => g = arg[t].value
                 ELSE /\ pc'[t] = "idle"
                      /\ ret'[t] = Returned("setStyleParameter", "false")
                      /\ parameterValueMap' = parameterValueMap]_vars

\* setStyleParameter("mode", "dim") has returned true and getStyleParameter
\* returns "dark", the first label with the value of "dim".
C6_Witness ==
    /\ pc[Client] = "idle"
    /\ ret[Client] = Returned("setStyleParameter", "true")
    /\ arg[Client].name = "mode" /\ arg[Client].value = S_dim
    /\ EnumParam(map, "mode")
    /\ GetStyleParameterEval(map, parameterValueMap, "mode").str = S_dark

\* ------------------------------------------------------------------ notification properties
MutatingOps == StyleSetOps \cup {"setStyleParameter"} \cup SetterOps

\* The engine holds what the call of t stored.
Installed(t) ==
    LET a == arg[t]
    IN  CASE a.op \in StyleSetOps ->
               /\ styleSet = a.ss
               /\ map.style = a.ss.style
               /\ parameterValueMap = DefaultParameterValueMap(map)
               /\ symbolizerContext = NewSymbolizerContext(map.style, parameterValueMap)
               /\ backgroundPattern = BackgroundPatternOf(map)
          [] a.op = "setStyleParameter" ->
               /\ Declared(map, a.name)
               /\ SetStyleParameterEval(map, parameterValueMap, a.name, a.value)
                      = [outcome |-> "true", pvm |-> parameterValueMap]
               /\ symbolizerContext.settings = parameterValueMap
          [] a.op = "setBuffering" -> buffer = a.num
          [] a.op = "setFeatureIdOverride" -> featureIdOverride = a.flag
          [] a.op = "setCartoCSSLayerNamesIgnored" -> cartoCSSLayerNamesIgnored = a.flag
          [] a.op = "setLayerNameOverride" -> layerNameOverride = a.text
          [] OTHER -> FALSE

\* C7: a mutating call that has returned successfully has notified exactly
\* once, and one that failed (returned false or threw) has not notified; no
\* notification is delivered before the call has stored its state; and when
\* the notification is about to be delivered, a listener that reads the
\* engine finds what the call stored, unless another call has stored since.
C7_OneNotificationAfterInstall ==
    \A t \in Threads :
        /\ (pc[t] = "idle" /\ ret[t].op \in MutatingOps)
              => notified[t] = IF ret[t].outcome \in {"ok", "true"} THEN 1 ELSE 0
        /\ pc[t] # "idle" => notified[t] = 0
        /\ (pc[t] = "notify" \/ notified[t] > 0) => wrote[t]
        /\ (pc[t] = "notify" /\ lastWriter = t /\ mutex = NoThread) => Installed(t)

\* One thread's call has failed without a notification, and the other's has
\* succeeded with one.
C7_Witness ==
    \E t, u \in Threads :
        /\ pc[t] = "idle" /\ pc[u] = "idle"
        /\ ret[t].op = "setStyleParameter" /\ ret[t].outcome = "false" /\ notified[t] = 0
        /\ ret[u].op \in MutatingOps /\ ret[u].outcome \in {"ok", "true"} /\ notified[u] = 1

\* C8: a thread that is about to deliver the style-changed notification does
\* not hold the mutex, so a listener that calls back into the decoder on that
\* thread is not blocked by its own caller.
C8_NotifyOutsideLock ==
    \A t \in Threads : pc[t] = "notify" => mutex # t

\* A thread is about to notify while another thread is inside a locked block.
C8_Witness ==
    \E t, u \in Threads : t # u /\ pc[t] = "notify" /\ mutex = u

\* The model and the settings belong to one style.
Consistent(m, c) ==
    c.style = m.style /\ DOMAIN c.settings = DOMAIN NutiParameterMap(m.style)

\* C9: decodeTile takes the style model and the symbolizer context in one
\* locked block, so when the block ends both are the engine's current ones,
\* the engine's pair is that of one style whenever the mutex is free, and the
\* pair a decodeTile call works with and returns is never the model of one
\* style with the settings of another.
C9_ConsistentSnapshot ==
    /\ [](mutex = NoThread => Consistent(map, symbolizerContext))
    /\ [](\A t \in Threads :
             /\ pc[t] = "dt_decode" => Consistent(loc[t].map, loc[t].ctx)
             /\ (pc[t] = "idle" /\ ret[t].op = "decodeTile" /\ ret[t].outcome = "ok")
                   => Consistent(ret[t].tile.map, ret[t].tile.ctx))
    /\ [][\A t \in Threads :
             Leaves(t, "dt_snapshot2")
                 => /\ pc'[t] = "dt_decode"
                    /\ loc'[t].map = map /\ loc'[t].ctx = symbolizerContext
                    /\ mutex = t /\ mutex' = NoThread]_vars

\* A decodeTile call in flight works with the style that was installed when
\* it took its snapshot, while another style has been installed since.
C9_Witness ==
    \E t \in Threads :
        /\ pc[t] = "dt_decode"
        /\ loc[t].map.style # map.style
        /\ loc[t].ctx.style = loc[t].map.style
        /\ symbolizerContext.style = map.style

\* ------------------------------------------------------------------ decode error properties
\* The call's payload has content and something throws while it is decoded.
DecodeFails(a) ==
    \/ /\ a.op = "decodeFeature"
       /\ \/ ParseThrows(a.payload)
          \/ GetFeatureThrows(a.payload, a.id)
          \/ ConvertThrows(a.payload, a.id)
    \/ /\ a.op = "decodeTile"
       /\ ParseThrows(a.payload) \/ ReadTileThrows(a.payload)

NoContent(a) == a.payload \in {"Pnull", "Pempty"}

\* C11: a decodeFeature or decodeTile call never ends with an exception; a
\* call in which the parser, the feature lookup, the conversion or the tile
\* reader throws returns absent and does not keep the mutex; and a call whose
\* payload decodes returns its result whatever calls have failed before it or
\* beside it.
C11_DecodeFailureReturnsAbsent ==
    \A t \in Threads :
        /\ pc[t] = "idle" => mutex # t
        /\ (pc[t] = "idle" /\ ret[t].op \in DecodeOps)
              => /\ ret[t].outcome \in {"ok", "absent"}
                 /\ DecodeFails(arg[t]) => ret[t] = Returned(arg[t].op, "absent")
                 /\ (arg[t].op = "decodeTile" /\ ~DecodeFails(arg[t]) /\ ~NoContent(arg[t]))
                       => /\ ret[t].outcome = "ok"
                          /\ ret[t].tile.present /\ ret[t].tile.src = arg[t].payload
                 /\ (arg[t].op = "decodeFeature" /\ ~DecodeFails(arg[t]) /\ ~NoContent(arg[t])
                       /\ arg[t].id \in DOMAIN WireFeatures(arg[t].payload))
                       => /\ ret[t].outcome = "ok"
                          /\ ret[t].feat.present /\ ret[t].feat.id = arg[t].id

\* The feature lookup of t's call threw after t had installed its decoder;
\* u's call installed its own after that and has returned a feature.
C11_Witness ==
    \E t, u \in Threads :
        /\ t # u /\ pc[t] = "idle" /\ pc[u] = "idle"
        /\ arg[t].op = "decodeFeature" /\ GetFeatureThrows(arg[t].payload, arg[t].id)
        /\ loc[t].decoder.by = t
        /\ ret[t] = Returned("decodeFeature", "absent")
        /\ ret[u].op = "decodeFeature" /\ ret[u].outcome = "ok"
        /\ cachedFeatureDecoder.decoder.by = u

\* The step in which t calls decodeFeature or decodeTile with a null or an
\* empty payload.
NoContentCall(t) ==
    /\ pc[t] = "idle" /\ calls' = calls + 1
    /\ arg'[t].op \in DecodeOps /\ NoContent(arg'[t])
    /\ \A u \in Threads \ {t} : arg'[u] = arg[u] /\ pc'[u] = pc[u] /\ ret'[u] = ret[u]

\* C12: decodeFeature and decodeTile called with a null or a zero-length
\* payload return absent in the step that enters them: the call raises
\* nothing, never waits for or takes the mutex (whoever holds it keeps it),
\* and changes neither the feature-decode cache nor any other engine state.
C12_NoContentReturnsAbsent ==
    /\ [](\A t \in Threads :
             (arg[t].op \in DecodeOps /\ NoContent(arg[t]))
                 => pc[t] = "idle" /\ ret[t] = Returned(arg[t].op, "absent"))
    /\ [][\A t \in Threads :
             NoContentCall(t)
                 => /\ pc'[t] = "idle" /\ ret'[t] = Returned(arg'[t].op, "absent")
                    /\ UNCHANGED <<engineVars, mutex>>]_vars

\* t's call with an empty payload has returned absent, while u is inside the
\* locked block of a decodeFeature call and the cache holds a decoder.
C12_Witness ==
    \E t, u \in Threads :
        /\ t # u /\ pc[t] = "idle"
        /\ arg[t].op \in DecodeOps /\ arg[t].payload = "Pempty"
        /\ ret[t] = Returned(arg[t].op, "absent")
        /\ mutex = u /\ pc[u] = "df_install"

\* ------------------------------------------------------------------ parameter value map properties
\* The value is one a parameter declared as nutiParam may hold: a value of its
\* enum table, or for a plain parameter a value of the kind of its default.
ValueOfDeclaredKind(nutiParam, value) ==
    IF Len(nutiParam.enum) > 0
    THEN \E i \in 1..Len(nutiParam.enum) : nutiParam.enum[i].value = value
    ELSE value.k = nutiParam.default.k

\* C13: whatever styles have been installed and whatever setStyleParameter
\* calls have succeeded, returned false or thrown, every key of the parameter
\* value map is a parameter declared by the installed style model, and its
\* value is of the parameter's declared kind or, for an enum parameter, a
\* value of its enum table.
C13_ParameterValuesDeclared ==
    /\ DOMAIN parameterValueMap \subseteq DOMAIN NutiParameterMap(map.style)
    /\ \A name \in DOMAIN parameterValueMap :
           ValueOfDeclaredKind(NutiParameterMap(map.style)[name], parameterValueMap[name])

\* A setStyleParameter call has just failed on a parameter value map in which
\* earlier calls have overridden two parameters.
C13_Witness ==
    /\ pc[Client] = "idle"
    /\ ret[Client].op = "setStyleParameter" /\ ret[Client].outcome \in {"false", "raise"}
    /\ \E n1, n2 \in DOMAIN parameterValueMap :
           /\ n1 # n2
           /\ parameterValueMap[n1] # NutiParameterMap(map.style)[n1].default
           /\ parameterValueMap[n2] # NutiParameterMap(map.style)[n2].default

\* ------------------------------------------------------------------ style installation properties
\* C14 as claimed: the thread that compiles a style in updateCurrentStyle
\* does not hold the mutex; it takes it for the stores of the new state only,
\* so no reader waits for a compilation.
C14_CompileOutsideLock ==
    \A t \in Threads : pc[t] = "ucs_compile" => mutex # t

\* The asset name of a compiled style set has neither of the two suffixes.
UnknownSuffix(ss) ==
    /\ ss.kind = "compiled"
    /\ ~EndsWith(ss.assetName, Suffix_xml) /\ ~EndsWith(ss.assetName, Suffix_json)

\* The exceptions a caller of a style installation may catch.
ErrorOf(r) == [type |-> r.type, msg |-> r.msg]
UnsupportedFormatError ==
    [type |-> "GenericException", msg |-> "Failed to detect style asset type"]
AssetError ==
    [type |-> "GenericException", msg |-> "Failed to load style description asset"]
NoStyleAssetError ==
    [type |-> "InvalidArgumentException", msg |-> "Could not find any styles in the style set"]
ParseError(msg) == [type |-> "ParseException", msg |-> msg]

\* C15 as claimed: setCompiledStyleSet with an asset name (not the empty one)
\* that ends in neither .xml nor .json fails with the unsupported-format
\* error, which is not the error of an asset that cannot be loaded.
C15_UnknownSuffixIsUnsupportedFormat ==
    \A t \in Threads :
        (pc[t] = "idle" /\ ret[t].op = "setCompiledStyleSet" /\ UnknownSuffix(arg[t].ss)
             /\ Len(arg[t].ss.assetName) > 0)
            => /\ ret[t].outcome = "raise"
               /\ ErrorOf(ret[t]) = UnsupportedFormatError
               /\ ErrorOf(ret[t]) # AssetError

\* C15 as amended: the asset name is tested for being empty and the asset is
\* loaded before the suffix is looked at, so a compiled style set fails with
\* InvalidArgumentException when it names no asset and with the asset error
\* when the asset cannot be loaded, whatever the suffix; a loaded asset whose
\* name ends in neither .xml nor .json fails with GenericException "Failed to
\* detect style asset type", which has the exception type of the asset error
\* and another message; a name in .xml goes to the XML document and map
\* parser, which never sees the layer-names-ignored flag, and a name in .json
\* to the CartoCSS project loader, which takes the flag.
C15_SuffixDispatchAfterLoad ==
    /\ [](\A t \in Threads :
             (pc[t] = "idle" /\ ret[t].op = "setCompiledStyleSet"
                  /\ arg[t].ss.kind = "compiled")
                 => LET ss == arg[t].ss
                        r == ret[t]
                    IN  CASE Len(ss.assetName) = 0 ->
                               r.outcome = "raise" /\ ErrorOf(r) = NoStyleAssetError
                          [] Len(ss.assetName) > 0 /\ ~(ss.package /\ ss.present) ->
                               r.outcome = "raise" /\ ErrorOf(r) = AssetError
                          [] OTHER ->
                               IF UnknownSuffix(ss)
                               THEN /\ r.outcome = "raise"
                                    /\ ErrorOf(r) = UnsupportedFormatError
                                    /\ r.type = AssetError.type /\ r.msg # AssetError.msg
                               ELSE IF EndsWith(ss.assetName, Suffix_xml)
                               THEN IF ~ss.loads
                                    THEN ErrorOf(r) = ParseError("Style element XML parsing failed")
                                    ELSE IF ~ss.parses
                                    THEN ErrorOf(r) = ParseError("XML style processing failed")
                                    ELSE r.outcome = "ok"
                               ELSE IF ~ss.parses
                                    THEN ErrorOf(r) = ParseError("CartoCSS style parsing failed")
                                    ELSE r.outcome = "ok")
    /\ [][\A t \in Threads :
             (Leaves(t, "ucs_compile") /\ pc'[t] = "ucs_swap" /\ arg[t].ss.kind = "compiled")
                 => loc'[t].newMap =
                       [style |-> arg[t].ss.style,
                        ignore |-> IF EndsWith(arg[t].ss.assetName, Suffix_json)
                                   THEN cartoCSSLayerNamesIgnored ELSE FALSE]]_vars

\* A compiled style set whose asset is in the package under a name in .txt has
\* been refused, with the layer-names-ignored flag set.
C15_Witness ==
    /\ pc[Client] = "idle" /\ ret[Client].op = "setCompiledStyleSet"
    /\ arg[Client].ss = SS_txt
    /\ ErrorOf(ret[Client]) = UnsupportedFormatError
    /\ cartoCSSLayerNamesIgnored

\* ------------------------------------------------------------------ geometry properties
\* A decodeFeature call of t has returned a feature.
FeatureReturned(t) ==
    pc[t] = "idle" /\ ret[t].op = "decodeFeature" /\ ret[t].outcome = "ok"

\* C16: in the feature decodeFeature returns, a vertex at tile-local (0,0)
\* lies at (bounds min X, bounds max Y) and one at (1,1) at (bounds max X,
\* bounds min Y), for every bounding rectangle; each vertex lies at the
\* weighted mean of min X and max X by its tile-local x, and of max Y and
\* min Y by its tile-local y, so x grows from min X to max X and y falls
\* from max Y to min Y (positions in units of 1/PosUnit).
C16_CoordinateMapping ==
    \A t \in Threads :
        FeatureReturned(t)
            => LET wire == WireVertices(arg[t].payload, arg[t].id)
                   b == arg[t].bounds
               IN  /\ Len(ret[t].poses) = Len(wire)
                   /\ \A i \in 1..Len(wire) :
                         LET w == wire[i]
                             p == ret[t].poses[i]
                         IN  /\ (w.x = 0 /\ w.y = 0)
                                   => p.x = PosUnit * b.minX /\ p.y = PosUnit * b.maxY
                             /\ (w.x = PosUnit /\ w.y = PosUnit)
                                   => p.x = PosUnit * b.maxX /\ p.y = PosUnit * b.minY
                             /\ p.x = (PosUnit - w.x) * b.minX + w.x * b.maxX
                             /\ p.y = w.y * b.minY + (PosUnit - w.y) * b.maxY

\* The feature with a vertex at (0,0) and one at (1,1) has been returned for
\* a rectangle that is no square and reaches across the origin.
C16_Witness ==
    /\ FeatureReturned(Client)
    /\ arg[Client].payload = "P1" /\ arg[Client].id = 2
    /\ arg[Client].bounds = MapBounds(-2, 0, 3, 3)
    /\ ret[Client].poses = << [x |-> -2 * PosUnit, y |-> 3 * PosUnit],
                              [x |-> 3 * PosUnit, y |-> 0] >>

\* C17: the geometry of a returned feature has the family of the wire
\* geometry (point, line or polygon) and as many parts; it is the singular
\* geometry exactly when the wire geometry has one part, and the
\* multi-geometry for two parts and for none. A feature the payload holds is
\* returned, and one it does not hold is absent.
C17_GeometryCollapse ==
    \A t \in Threads :
        (pc[t] = "idle" /\ ret[t].op = "decodeFeature")
            => IF arg[t].id \in DOMAIN WireFeatures(arg[t].payload)
               THEN LET wire == WireFeatures(arg[t].payload)[arg[t].id]
                        g == ret[t].feat.geometry
                    IN  /\ ret[t].outcome = "ok" /\ ret[t].feat.present
                        /\ g.family = wire.family
                        /\ g.parts = wire.parts
                        /\ ~g.multi <=> wire.parts = 1
               ELSE ret[t] = Returned("decodeFeature", "absent")

\* A polygon feature without parts has been returned as a multi-polygon.
C17_Witness ==
    /\ FeatureReturned(Client)
    /\ WireFeatures(arg[Client].payload)[arg[Client].id].parts = 0
    /\ ret[Client].feat.geometry = [family |-> "polygon", multi |-> TRUE, parts |-> 0]

\* ------------------------------------------------------------------ decode frame properties
\* A step of t in a decodeFeature or decodeTile call in which something
\* throws: its entry, or a later step up to its return.
StepOfFailingDecode(t) ==
    pc'[t] # pc[t] /\ arg'[t].op \in DecodeOps /\ DecodeFails(arg'[t])

\* C18 as claimed: no step of a decodeFeature or decodeTile call that ends in
\* a caught exception changes the engine state: the style state, the options
\* and the feature-decode cache are after the call what they were before it.
C18_FailedDecodeChangesNothing ==
    [][\A t \in Threads : StepOfFailingDecode(t) => UNCHANGED engineVars]_vars

\* C18 as amended: no step of a decodeFeature or decodeTile call that ends in
\* a caught exception changes the style state or the options. The
\* feature-decode cache is left alone by decodeTile, by a decodeFeature call
\* whose payload does not parse and by one that finds its payload cached; a
\* decodeFeature call that misses and whose payload parses stores (payload,
\* its decoder) in the slot before the lookup or the conversion throws.
C18_FailedDecodeKeepsStyleState ==
    /\ [][\A t \in Threads :
             StepOfFailingDecode(t)
                 => /\ UNCHANGED <<styleVars, optionVars>>
                    /\ IF pc[t] = "df_install"
                       THEN cachedFeatureDecoder' =
                                [payload |-> arg[t].payload,
                                 decoder |-> NewFeatureDecoder(arg[t].payload, t)]
                       ELSE UNCHANGED cachedFeatureDecoder]_vars
    /\ [](\A t \in Threads :
             pc[t] \in {"df_relock", "df_install"}
                 => arg[t].op = "decodeFeature" /\ ~ParseThrows(arg[t].payload))

\* The lookup of t's call has thrown and the call has returned absent; the
\* slot holds the decoder that the call parsed and installed.
C18_Witness ==
    \E t \in Threads :
        /\ pc[t] = "idle" /\ arg[t].op = "decodeFeature" /\ DecodeFails(arg[t])
        /\ ret[t] = Returned("decodeFeature", "absent")
        /\ cachedFeatureDecoder =
               [payload |-> arg[t].payload, decoder |-> NewFeatureDecoder(arg[t].payload, t)]
        /\ buffer = 1

\* C19: no step of a decodeTile call changes the feature-decode cache, a
\* decodeTile call never works with the cached decoder, and what it returns
\* depends on its payload and its snapshot only: a tile decoded from the
\* payload, also when the cache holds a decoder for that payload.
C19_DecodeTileLeavesCache ==
    /\ [][\A t \in Threads :
             (pc'[t] # pc[t] /\ arg'[t].op = "decodeTile")
                 => UNCHANGED cachedFeatureDecoder]_vars
    /\ [](\A t \in Threads :
             arg[t].op = "decodeTile"
                 => /\ loc[t].decoder = NoDecoder
                    /\ (pc[t] = "idle" /\ ~DecodeFails(arg[t]) /\ ~NoContent(arg[t]))
                          => /\ ret[t].outcome = "ok"
                             /\ ret[t].tile.src = arg[t].payload
                             /\ ret[t].tile.map = loc[t].map
                             /\ ret[t].tile.buffer = loc[t].buffer)

\* t's decodeTile call has returned a tile for the payload whose decoder,
\* parsed by u's decodeFeature call, is in the cache.
C19_Witness ==
    \E t, u \in Threads :
        /\ t # u /\ pc[t] = "idle"
        /\ ret[t].op = "decodeTile" /\ ret[t].outcome = "ok"
        /\ cachedFeatureDecoder = [payload |-> arg[t].payload,
                                   decoder |-> NewFeatureDecoder(arg[t].payload, u)]

\* ------------------------------------------------------------------ installation frame properties
\* A step of t in a call that installs a style set.
InstallStep(t) == pc'[t] # pc[t] /\ arg'[t].op \in StyleSetOps

\* C20: the constructor leaves the parameter value map at the declared
\* defaults of its style; the swap of every later installation replaces the
\* map by exactly the declared parameters of the new style at their defaults,
\* whatever overrides it held and also when the style set is the one already
\* installed; when the installing call notifies and when it has returned, the
\* map and the settings are still those defaults; and no step of an
\* installation changes the buffering, the id-override flag, the layer-name
\* override, the layer-names-ignored flag or the feature-decode cache.
C20_InstallResetsParameters ==
    /\ parameterValueMap = DefaultParameterValueMap(map)
    /\ [][\A t \in Threads :
             Leaves(t, "ucs_swap")
                 => /\ map'.style = arg[t].ss.style
                    /\ DOMAIN parameterValueMap' = DOMAIN NutiParameterMap(arg[t].ss.style)
                    /\ \A name \in DOMAIN parameterValueMap' :
                          parameterValueMap'[name] =
                              NutiParameterMap(arg[t].ss.style)[name].default]_vars
    /\ [][\A t \in Threads :
             InstallStep(t) => UNCHANGED <<optionVars, cachedFeatureDecoder>>]_vars
    /\ [](\A t \in Threads :
             (arg[t].op \in StyleSetOps
                  /\ (pc[t] = "notify" \/ (pc[t] = "idle" /\ ret[t].outcome = "ok")))
                 => /\ styleSet = arg[t].ss
                    /\ parameterValueMap = DefaultParameterValueMap(map)
                    /\ symbolizerContext.settings = parameterValueMap)

\* The style set that is installed is being installed again: the parameter
\* value map is back at the defaults, while the settings, which the next step
\* replaces, still show the override that was in force; the options are set
\* and the cache holds a decoder.
C20_Witness ==
    /\ pc[Client] = "ucs_swap2"
    /\ arg[Client].ss = styleSet
    /\ parameterValueMap = DefaultParameterValueMap(map)
    /\ symbolizerContext.settings # parameterValueMap
    /\ buffer = 1 /\ featureIdOverride /\ cartoCSSLayerNamesIgnored
    /\ layerNameOverride = "roads"
    /\ cachedFeatureDecoder.payload = "P1"

\* ------------------------------------------------------------------ failed installation properties
\* The style set is one that setCompiledStyleSet or setCartoCSSStyleSet
\* refuses: a null pointer, or one whose style does not compile.
InstallFails(ss) == ss.kind = "null" \/ ~CompileStyle(ss, FALSE).ok

\* The exception a refused style set ends with.
InstallError(ss) ==
    IF ss.kind = "null"
    THEN [type |-> "NullArgumentException", msg |-> "none"]
    ELSE [type |-> CompileStyle(ss, FALSE).type, msg |-> CompileStyle(ss, FALSE).msg]

\* A step of t in a call that installs a style set which is refused: the
\* call itself, or a later step up to the throw.
StepOfFailingInstall(t) ==
    /\ arg'[t].op \in StyleSetOps /\ InstallFails(arg'[t].ss)
    /\ pc'[t] # pc[t] \/ arg'[t] # arg[t] \/ ret'[t] # ret[t]

\* C21: a style installation that fails (null style set, no asset name, asset
\* not retrievable, unrecognized suffix, XML that does not load, style that
\* does not parse) ends with its exception at the caller, never reaches the
\* stores or the notification, does not keep the mutex, and none of its
\* steps changes the style model, the parameter values, the settings, the
\* background pattern, the active style set or any other engine state.
C21_FailedInstallChangesNothing ==
    /\ [](\A t \in Threads :
             (arg[t].op \in StyleSetOps /\ InstallFails(arg[t].ss))
                 => /\ pc[t] \in {"idle", "ucs_lock", "ucs_compile"}
                    /\ notified[t] = 0 /\ ~wrote[t]
                    /\ pc[t] = "idle"
                          => /\ ret[t].outcome = "raise"
                             /\ ErrorOf(ret[t]) = InstallError(arg[t].ss)
                             /\ mutex # t)
    /\ [][\A t \in Threads :
             StepOfFailingInstall(t) => UNCHANGED engineVars]_vars

\* An installation has failed on an asset that the package does not hold,
\* while the engine runs the CartoCSS style with an overridden parameter: the
\* override and the style set are still there, the mutex is free and nothing
\* was notified.
C21_Witness ==
    /\ pc[Client] = "idle" /\ arg[Client].ss = SS_missing
    /\ ret[Client].outcome = "raise" /\ ErrorOf(ret[Client]) = AssetError
    /\ styleSet = SS_B /\ map.style = "B"
    /\ parameterValueMap # DefaultParameterValueMap(map)
    /\ symbolizerContext.settings = parameterValueMap
    /\ notified[Client] = 0 /\ mutex = NoThread

\* ------------------------------------------------------------------ cache properties
EmptySlot == [payload |-> "Pnull", decoder |-> NoDecoder]

\* C22: the feature-decode cache is one slot, which is empty or holds one
\* payload with a decoder that was parsed from that payload by a decodeFeature
\* call; the slot changes only in the install step of a decodeFeature call
\* that missed, which stores the call's payload and decoder; and no step of
\* a style installation, of setStyleParameter or of an option setter changes
\* or empties it.
C22_CacheHoldsDecoderOfItsPayload ==
    /\ [](\/ cachedFeatureDecoder = EmptySlot
          \/ /\ cachedFeatureDecoder.payload \in Payloads \ {"Pnull", "Pempty"}
             /\ ~ParseThrows(cachedFeatureDecoder.payload)
             /\ cachedFeatureDecoder.decoder.src = cachedFeatureDecoder.payload
             /\ cachedFeatureDecoder.decoder.by \in Threads)
    /\ [][cachedFeatureDecoder' # cachedFeatureDecoder
             => \E t \in Threads :
                   /\ Leaves(t, "df_install") /\ arg[t].op = "decodeFeature"
                   /\ cachedFeatureDecoder' =
                          [payload |-> arg[t].payload, decoder |-> loc[t].decoder]]_vars
    /\ [][\A t \in Threads :
             (pc'[t] # pc[t] /\ arg'[t].op \in MutatingOps)
                 => UNCHANGED cachedFeatureDecoder]_vars

\* u's installation of a style is about to notify while the slot holds the
\* decoder of t's decodeFeature call, which has returned its feature.
C22_Witness ==
    \E t, u \in Threads :
        /\ t # u
        /\ pc[u] = "notify" /\ arg[u].op \in StyleSetOps
        /\ pc[t] = "idle" /\ ret[t].op = "decodeFeature" /\ ret[t].outcome = "ok"
        /\ cachedFeatureDecoder =
               [payload |-> arg[t].payload, decoder |-> NewFeatureDecoder(arg[t].payload, t)]

\* ------------------------------------------------------------------ layer names ignored properties
\* The style set is compiled by a CartoCSS loader, which takes the flag.
UsesCartoCSSLoader(ss) ==
    ss.kind = "cartocss" \/ (ss.kind = "compiled" /\ EndsWith(ss.assetName, Suffix_json))

\* C23: setCartoCSSLayerNamesIgnored stores the flag, notifies once and
\* returns; none of its steps changes the style model or anything else of
\* the style state, so the model in use keeps the flag value it was compiled
\* with; the flag value of the model changes only in the swap of a style
\* installation, and a CartoCSS style is compiled with the value that the
\* flag has when that installation compiles it.
C23_LayerNamesIgnoredAtNextInstall ==
    /\ [][\A t \in Threads :
             (pc'[t] # pc[t] /\ arg'[t].op = "setCartoCSSLayerNamesIgnored")
                 => UNCHANGED <<styleVars, buffer, featureIdOverride, layerNameOverride,
                                cachedFeatureDecoder>>]_vars
    /\ [][\A t \in Threads :
             (Leaves(t, "set_store") /\ arg[t].op = "setCartoCSSLayerNamesIgnored")
                 => cartoCSSLayerNamesIgnored' = arg[t].flag /\ pc'[t] = "notify"]_vars
    /\ [](\A t \in Threads :
             (pc[t] = "idle" /\ ret[t].op = "setCartoCSSLayerNamesIgnored")
                 => ret[t].outcome = "ok" /\ notified[t] = 1)
    /\ [][map'.ignore # map.ignore => \E t \in Threads : Leaves(t, "ucs_swap")]_vars
    /\ [][\A t \in Threads :
             (Leaves(t, "ucs_compile") /\ pc'[t] = "ucs_swap")
                 => loc'[t].newMap.ignore =
                       (UsesCartoCSSLoader(arg[t].ss) /\ cartoCSSLayerNamesIgnored)]_vars

\* The flag has been set and the call has notified and returned, while the
\* CartoCSS style in use is the one compiled without it.
C23_Witness ==
    /\ pc[Client] = "idle" /\ ret[Client].op = "setCartoCSSLayerNamesIgnored"
    /\ notified[Client] = 1
    /\ cartoCSSLayerNamesIgnored /\ ~map.ignore
    /\ styleSet = SS_B

\* ------------------------------------------------------------------ unknown parameter properties
\* C24: a getStyleParameter call that has returned raised
\* InvalidArgumentException, with no string, exactly when the style in use
\* does not declare the name, and returned normally otherwise; the caller
\* does not hold the mutex after the return, and no step of the call changes
\* the engine's state.
C24_UnknownParameterRaises ==
    /\ [](\A t \in Threads :
             (pc[t] = "idle" /\ ret[t].op = "getStyleParameter")
                 => /\ mutex # t
                    /\ IF Declared(map, arg[t].name)
                       THEN ret[t].outcome = "ok"
                       ELSE /\ ret[t].outcome = "raise"
                            /\ ret[t].type = "InvalidArgumentException"
                            /\ ret[t].str = NoRet.str)
    /\ [][\A t \in Threads :
             (pc'[t] # pc[t] /\ arg'[t].op = "getStyleParameter")
                 => UNCHANGED engineVars]_vars

\* A lookup of "width", which only the other style declares, has raised, after
\* the client has installed a style and overridden one of its parameters.
C24_Witness ==
    /\ pc[Client] = "idle" /\ ret[Client].op = "getStyleParameter"
    /\ arg[Client].name = "width" /\ ~Declared(map, "width")
    /\ ret[Client].outcome = "raise"
    /\ styleSet = SS_B
    /\ parameterValueMap # DefaultParameterValueMap(map)
    /\ mutex = NoThread

====
